---- MODULE Spec2Model ----
(***************************************************************************)
(* A model of td/telegram/PollManager.cpp: the poll registry, the vote     *)
(* submission coordinator (pending_answers_), poll closing, the durable    *)
(* log (binlog) with its replay at start-up, and the server merge.         *)
(*                                                                         *)
(* Every handler of PollManager is one action.  A handler is written as an *)
(* operator from a state record (one field per variable) to a state        *)
(* record, so that handlers that call each other (set_poll_answer ->       *)
(* do_set_poll_answer, on_binlog_events -> do_set_poll_answer) compose.    *)
(* send_closure is a message send: the closure is put in flight            *)
(* (net_actors, mailbox) and runs as an action of its own.                 *)
(***************************************************************************)
EXTENDS Integers, Sequences, FiniteSets, TLC

\* ------------------------------------------------------------------ bounds
MaxGeneration == 2      \* cap of current_generation_ within one process
MaxPromises == 2        \* caller promises handed out, over all processes
MaxLogEvents == 2       \* cap of the ids the durable log hands out
MaxRestarts == 1        \* process restarts
MaxLocalPolls == 2      \* polls created by create_poll within one process
MaxOptions == 3         \* voter counts handed to get_vote_percentage
MaxVoterCount == 5      \* largest voter count handed to get_vote_percentage

\* ------------------------------------------------------- program constants
Int32Max == 2147483647
Int32Min == (0 - Int32Max) - 1

ServerPollIds == {1}
LocalPollIds == (0 - MaxLocalPolls)..(-1)
PollIds == ServerPollIds \cup LocalPollIds
FullMessageIds == {"m1"}
\* the option identifiers (PollOption::data) of the polls the server sends
ServerAnswers == << [text |-> "A", data |-> "a"], [text |-> "B", data |-> "b"] >>
\* the vector<int32> option_ids a caller may pass to set_poll_answer
OptionIdInputs == { <<>>, <<0>>, <<1>>, <<2>>, <<-1>>, <<0, 1>> }

VARIABLES
  polls_,                       \* PollId -> Poll (the registry)
  poll_messages_,               \* PollId -> set of FullMessageId
  pending_answers_,             \* PollId -> PendingAnswer
  loaded_from_database_polls_,  \* set of PollId
  current_generation_,          \* uint64
  current_local_poll_id_,       \* int64
  update_poll_timeout_,         \* PollId -> armed timeout (MultiTimeout)
  use_message_db,               \* G()->parameters().use_message_db
  is_bot,                       \* td_->auth_manager_->is_bot()
  is_online,                    \* td_->is_online()
  close_flag,                   \* G()->close_flag()
  binlog,                       \* the durable log: a set of entries
  next_logevent_id,             \* the id binlog_add hands out next
  database,                     \* the durable key-value store: PollId -> Poll
  net_actors,                   \* net actors created whose send() has not run
  net_queries,                  \* network queries in flight
  mailbox,                      \* closures sent to PollManager, not yet run
  promises,                     \* the caller promises not yet resolved (ids)
  next_promise,                 \* the id of the next caller promise
  check_failed,                 \* a CHECK failed: the process has aborted
  restarts,                     \* number of process restarts so far
  last                          \* the handler that ran last and its inputs

vars == << polls_, poll_messages_, pending_answers_, loaded_from_database_polls_,
           current_generation_, current_local_poll_id_, update_poll_timeout_,
           use_message_db, is_bot, is_online, close_flag, binlog, next_logevent_id,
           database, net_actors, net_queries, mailbox, promises, next_promise,
           check_failed, restarts, last >>

\* The current state as a record, and the action that installs a record.
Cur ==
  [ polls_ |-> polls_, poll_messages_ |-> poll_messages_,
    pending_answers_ |-> pending_answers_,
    loaded_from_database_polls_ |-> loaded_from_database_polls_,
    current_generation_ |-> current_generation_,
    current_local_poll_id_ |-> current_local_poll_id_,
    update_poll_timeout_ |-> update_poll_timeout_,
    use_message_db |-> use_message_db, is_bot |-> is_bot, is_online |-> is_online,
    close_flag |-> close_flag, binlog |-> binlog,
    next_logevent_id |-> next_logevent_id, database |-> database,
    net_actors |-> net_actors, net_queries |-> net_queries, mailbox |-> mailbox,
    promises |-> promises, next_promise |-> next_promise, check_failed |-> check_failed, restarts |-> restarts,
    last |-> last ]

Set(s) ==
  /\ polls_' = s.polls_
  /\ poll_messages_' = s.poll_messages_
  /\ pending_answers_' = s.pending_answers_
  /\ loaded_from_database_polls_' = s.loaded_from_database_polls_
  /\ current_generation_' = s.current_generation_
  /\ current_local_poll_id_' = s.current_local_poll_id_
  /\ update_poll_timeout_' = s.update_poll_timeout_
  /\ use_message_db' = s.use_message_db
  /\ is_bot' = s.is_bot
  /\ is_online' = s.is_online
  /\ close_flag' = s.close_flag
  /\ binlog' = s.binlog
  /\ next_logevent_id' = s.next_logevent_id
  /\ database' = s.database
  /\ net_actors' = s.net_actors
  /\ net_queries' = s.net_queries
  /\ mailbox' = s.mailbox
  /\ promises' = s.promises
  /\ next_promise' = s.next_promise
  /\ check_failed' = s.check_failed
  /\ restarts' = s.restarts
  /\ last' = s.last

\* ------------------------------------------------------------- small helpers
EmptyMap == [x \in {} |-> 0]
Put(f, k, v) == [x \in (DOMAIN f) \cup {k} |-> IF x = k THEN v ELSE f[x]]
Erase(f, k) == [x \in (DOMAIN f) \ {k} |-> f[x]]
Range(seq) == {seq[i] : i \in 1..Len(seq)}

\* A failed CHECK aborts the process.
CheckFail(s) == [s EXCEPT !.check_failed = TRUE]

\* Promise<Unit>::set_value / set_error: the promise leaves the unresolved ones and
\* the handler's record tells what it was resolved with.  Promise 0 is the empty
\* promise Auto(), which nobody waits on.
set_result(s, promise, result) ==
  IF promise = 0 THEN s
  ELSE [s EXCEPT !.promises = @ \ {promise},
                 !.last.resolved = @ \cup {[promise |-> promise, result |-> result]}]
set_value(s, promise) == set_result(s, promise, "ok")
set_error(s, promise, error) == set_result(s, promise, error)

is_local_poll_id(poll_id) == poll_id < 0 /\ poll_id > Int32Min

have_poll(s, poll_id) == poll_id \in DOMAIN s.polls_

\* notify_on_poll_update: one on_update_message_content per registered message.
notify_on_poll_update(s, poll_id) ==
  IF poll_id \notin DOMAIN s.poll_messages_ THEN s
  ELSE [s EXCEPT !.last.notified = @ \cup s.poll_messages_[poll_id]]

\* The record of the handler that runs: its name, its inputs, and what it told
\* the outside (promises resolved, listeners notified, polls written to the
\* key-value store, ids read from it, the id it returned).
Last(op, args) ==
  [op |-> op, args |-> args, resolved |-> {}, notified |-> {}, saved |-> {},
   db_reads |-> {}, result |-> 0]

Begin(op, args) == [Cur EXCEPT !.last = Last(op, args)]

\* ------------------------------------------------------------ the durable log
\* binlog_add: appends an entry under a fresh id and returns the id.
binlog_add(s, type, poll_id, full_message_id, options) ==
  [s EXCEPT !.binlog = @ \cup {[id |-> s.next_logevent_id, type |-> type,
                                poll_id |-> poll_id,
                                full_message_id |-> full_message_id,
                                options |-> options]},
            !.next_logevent_id = @ + 1]

\* binlog_rewrite: replaces the payload of the entry with this id, keeping the id.
binlog_rewrite(s, logevent_id, type, poll_id, full_message_id, options) ==
  [s EXCEPT !.binlog = {e \in @ : e.id # logevent_id}
                         \cup {[id |-> logevent_id, type |-> type,
                                poll_id |-> poll_id,
                                full_message_id |-> full_message_id,
                                options |-> options]}]

\* binlog_erase: removes the entry with this id.
binlog_erase(s, logevent_id) ==
  [s EXCEPT !.binlog = {e \in @ : e.id # logevent_id}]

\* ------------------------------------------------------- the answer coordinator
\* A default-constructed PendingAnswer, as pending_answers_[poll_id] inserts it.
NewPendingAnswer ==
  [options_ |-> <<>>, promises_ |-> <<>>, generation_ |-> 0, logevent_id_ |-> 0,
   query_ref_ |-> 0]

PendingAnswerOf(s, poll_id) ==
  IF poll_id \in DOMAIN s.pending_answers_ THEN s.pending_answers_[poll_id]
  ELSE NewPendingAnswer

\* A do_set_poll_answer that never recognises the options in flight.
never_piggyback(pending_answer, options) == FALSE

\* do_set_poll_answer, lines 577-580: the same options are already in flight.
is_piggyback(pending_answer, options) ==
  pending_answer.promises_ # <<>> /\ pending_answer.options_ = options

\* do_set_poll_answer, lines 582-600: the log entry of the submission.  Returns
\* the state and the log-entry id the pending record will hold.
write_set_poll_answer_logevent(s, pending_answer, poll_id, full_message_id, options, logevent_id) ==
  IF ~(pending_answer.logevent_id_ = 0 \/ logevent_id = 0)
  THEN [s |-> CheckFail(s), logevent_id |-> logevent_id]
  ELSE IF logevent_id = 0 /\ s.use_message_db
  THEN IF pending_answer.generation_ = 0
       THEN IF pending_answer.logevent_id_ # 0
            THEN [s |-> CheckFail(s), logevent_id |-> logevent_id]
            ELSE [s |-> binlog_add(s, "SetPollAnswer", poll_id, full_message_id,
                                   options),
                  logevent_id |-> s.next_logevent_id]
       ELSE IF pending_answer.logevent_id_ = 0
            THEN [s |-> CheckFail(s), logevent_id |-> logevent_id]
            ELSE [s |-> binlog_rewrite(s, pending_answer.logevent_id_,
                                       "SetPollAnswer", poll_id, full_message_id,
                                       options),
                  logevent_id |-> pending_answer.logevent_id_]
  ELSE [s |-> s, logevent_id |-> logevent_id]

\* cancel_query: the query behind the reference, if still in flight, is cancelled.
cancel_query(queries, query_ref) ==
  {IF q.kind = "sendVote" /\ q.id = query_ref THEN [q EXCEPT !.cancelled = TRUE]
   ELSE q : q \in queries}

\* do_set_poll_answer, lines 607-611: the waiters of the superseded submission.
RECURSIVE resolve_superseded(_, _)
resolve_superseded(s, old_promises) ==
  IF old_promises = <<>> THEN s
  ELSE resolve_superseded(set_value(s, Head(old_promises)), Tail(old_promises))

\* A supersession that resolves the waiters but leaves the old request running.
supersede_without_cancel(s, pending_answer) ==
  IF pending_answer.promises_ = <<>> THEN s
  ELSE IF pending_answer.query_ref_ = 0 THEN CheckFail(s)
  ELSE resolve_superseded(s, pending_answer.promises_)

\* do_set_poll_answer, lines 602-612.
supersede(s, pending_answer) ==
  IF pending_answer.promises_ = <<>> THEN s
  ELSE IF pending_answer.query_ref_ = 0 THEN CheckFail(s)
  ELSE resolve_superseded(
         [s EXCEPT !.net_queries = cancel_query(@, pending_answer.query_ref_)],
         pending_answer.promises_)

\* A submission that takes the counter's value without advancing it.
reuse_generation(generation) == generation

\* do_set_poll_answer, line 619.
next_generation(generation) == generation + 1

\* do_set_poll_answer, lines 619-633: the new pending record and its request.
submit(s, poll_id, full_message_id, options, logevent_id, promise) ==
  LET generation == next_generation(s.current_generation_)
      s1 == [s EXCEPT
               !.current_generation_ = generation,
               !.pending_answers_ =
                  Put(@, poll_id,
                      [options_ |-> options, promises_ |-> <<promise>>,
                       generation_ |-> generation, logevent_id_ |-> logevent_id,
                       query_ref_ |-> 0]),
               !.net_actors = @ \cup {[kind |-> "SetPollAnswerActor",
                                       poll_id |-> poll_id,
                                       full_message_id |-> full_message_id,
                                       options |-> options,
                                       generation |-> generation,
                                       logevent_id |-> 0, promise |-> 0]}]
  IN notify_on_poll_update(s1, poll_id)

do_set_poll_answer(s, poll_id, full_message_id, options, logevent_id, promise) ==
  LET pending_answer == PendingAnswerOf(s, poll_id) IN
  IF is_piggyback(pending_answer, options)
  THEN [s EXCEPT !.pending_answers_[poll_id].promises_ = Append(@, promise)]
  ELSE
    LET w == write_set_poll_answer_logevent(s, pending_answer, poll_id,
                                            full_message_id, options, logevent_id)
    IN IF w.s.check_failed THEN w.s
       ELSE LET s2 == supersede(w.s, pending_answer)
            IN IF s2.check_failed THEN s2
               ELSE submit(s2, poll_id, full_message_id, options, w.logevent_id,
                           promise)

\* A conversion that drops the sign instead of wrapping.
to_size_t_unsigned_magnitude(option_id) ==
  IF option_id < 0 THEN 0 - option_id ELSE option_id

\* static_cast<size_t>(option_id), line 542: a negative index wraps to
\* 2^64 + option_id.  The wrapped value is kept within the 32-bit integers of
\* TLC as 2^31 + option_id, which is still above every vector size.
to_size_t(option_id) ==
  IF option_id < 0 THEN (Int32Max + option_id) + 1 ELSE option_id

\* set_poll_answer, lines 540-547: the option identifiers of the chosen indices;
\* ok is FALSE when an index is out of range.
RECURSIVE get_options(_, _)
get_options(poll, option_ids) ==
  IF option_ids = <<>> THEN [ok |-> TRUE, options |-> <<>>]
  ELSE LET index == to_size_t(Head(option_ids)) IN
       IF index >= Len(poll.options) THEN [ok |-> FALSE, options |-> <<>>]
       ELSE LET rest == get_options(poll, Tail(option_ids)) IN
            IF ~rest.ok THEN rest
            ELSE [ok |-> TRUE,
                  options |-> <<poll.options[index + 1].data>> \o rest.options]

set_poll_answer(s, poll_id, full_message_id, option_ids, promise) ==
  IF Len(option_ids) > 1
  THEN set_error(s, promise, "Can't choose more than 1 option")
  ELSE IF is_local_poll_id(poll_id)
  THEN set_error(s, promise, "Poll can't be answered")
  ELSE IF ~have_poll(s, poll_id) THEN CheckFail(s)
  ELSE IF s.polls_[poll_id].is_closed
  THEN set_error(s, promise, "Can't answer closed poll")
  ELSE LET r == get_options(s.polls_[poll_id], option_ids) IN
       IF ~r.ok
       THEN set_error(s, promise, "Invalid option id specified")
       ELSE do_set_poll_answer(s, poll_id, full_message_id, r.options, 0, promise)

\* SetPollAnswerActor::send, lines 95-110.  have_access is the answer of
\* get_input_peer(dialog_id, AccessRights::Read).  Without access the actor fails
\* its promise, whose lambda (lines 628-630) sends on_set_poll_answer to
\* PollManager; with access it stores the query in *query_ref, which points into
\* the poll's pending record, and hands the query to the network.
SetPollAnswerActor_send(s, actor, have_access) ==
  LET s1 == [s EXCEPT !.net_actors = @ \ {actor}] IN
  IF ~have_access
  THEN [s1 EXCEPT !.mailbox = @ \cup {[handler |-> "on_set_poll_answer",
                                       poll_id |-> actor.poll_id,
                                       generation |-> actor.generation,
                                       result |-> "Can't access the chat"]}]
  ELSE [s1 EXCEPT
          !.pending_answers_ =
             IF actor.poll_id \in DOMAIN @
             THEN [@ EXCEPT ![actor.poll_id].query_ref_ = actor.generation]
             ELSE @,
          !.net_queries = @ \cup {[kind |-> "sendVote", id |-> actor.generation,
                                   poll_id |-> actor.poll_id,
                                   full_message_id |-> actor.full_message_id,
                                   options |-> actor.options,
                                   generation |-> actor.generation,
                                   logevent_id |-> 0, promise |-> 0,
                                   cancelled |-> FALSE]}]

\* SetPollAnswerActor::on_result / on_error, lines 112-128: the network's answer
\* to the query resolves the actor's promise, whose lambda (lines 628-630) sends
\* on_set_poll_answer to PollManager.
SetPollAnswerActor_on_result(s, query, result) ==
  [s EXCEPT !.net_queries = @ \ {query},
            !.mailbox = @ \cup {[handler |-> "on_set_poll_answer",
                                 poll_id |-> query.poll_id,
                                 generation |-> query.generation,
                                 result |-> result]}]

\* An on_set_poll_answer that does not look at the close flag.
never_swallowed(s, result) == FALSE

\* on_set_poll_answer, line 636.
is_swallowed(s, result) == s.close_flag /\ result # "ok"

\* An on_set_poll_answer that does not compare generations.
is_stale_without_generation(s, poll_id, generation) ==
  poll_id \notin DOMAIN s.pending_answers_

\* on_set_poll_answer, lines 640-650.
is_stale(s, poll_id, generation) ==
  \/ poll_id \notin DOMAIN s.pending_answers_
  \/ s.pending_answers_[poll_id].generation_ # generation

\* An on_set_poll_answer that resolves only the first waiter.
resolve_first_waiter(s, waiters, result) ==
  IF waiters = <<>> THEN s ELSE set_result(s, Head(waiters), result)

\* on_set_poll_answer, lines 657-664.
RECURSIVE resolve_waiters(_, _, _)
resolve_waiters(s, waiters, result) ==
  IF waiters = <<>> THEN s
  ELSE resolve_waiters(set_result(s, Head(waiters), result), Tail(waiters), result)

\* An on_set_poll_answer that leaves the log entry of the record behind.
keep_answer_logevent(s, pending_answer) == s

\* on_set_poll_answer, lines 652-655.
erase_answer_logevent(s, pending_answer) ==
  IF pending_answer.logevent_id_ # 0 THEN binlog_erase(s, pending_answer.logevent_id_)
  ELSE s

on_set_poll_answer(s, poll_id, generation, result) ==
  IF is_swallowed(s, result) THEN s
  ELSE IF poll_id \notin DOMAIN s.pending_answers_ THEN s
  ELSE LET pending_answer == s.pending_answers_[poll_id] IN
       IF pending_answer.promises_ = <<>> THEN CheckFail(s)
       ELSE IF is_stale(s, poll_id, generation) THEN s
       ELSE LET s1 == erase_answer_logevent(s, pending_answer) IN
            [resolve_waiters(s1, pending_answer.promises_, result)
               EXCEPT !.pending_answers_ = Erase(@, poll_id)]

\* ------------------------------------------------------------- the registry
\* log_event_store / log_event_parse of a Poll: every field is stored and read back.
log_event_store(poll) == poll
log_event_parse(value) == value

\* A save_poll that writes whatever the session's durability is.
save_poll_in_every_session(s, poll_id) ==
  IF is_local_poll_id(poll_id) THEN CheckFail(s)
  ELSE [s EXCEPT !.database = Put(@, poll_id, log_event_store(s.polls_[poll_id])),
                 !.last.saved = @ \cup {poll_id}]

\* save_poll, lines 260-270.
save_poll(s, poll_id) ==
  IF is_local_poll_id(poll_id) THEN CheckFail(s)
  ELSE IF ~s.use_message_db THEN s
  ELSE [s EXCEPT !.database = Put(@, poll_id, log_event_store(s.polls_[poll_id])),
                 !.last.saved = @ \cup {poll_id}]

\* on_load_poll_from_database, lines 272-288.  An absent key reads as the empty
\* string.
on_load_poll_from_database(s, poll_id) ==
  LET s1 == [s EXCEPT !.loaded_from_database_polls_ = @ \cup {poll_id}] IN
  IF have_poll(s1, poll_id) THEN CheckFail(s1)
  ELSE IF poll_id \in DOMAIN s1.database
  THEN [s1 EXCEPT !.polls_ = Put(@, poll_id, log_event_parse(s1.database[poll_id]))]
  ELSE s1

\* A lookup that does not remember which ids it has read.
get_poll_force_without_memory(s, poll_id) ==
  IF have_poll(s, poll_id) THEN s
  ELSE IF ~s.use_message_db THEN s
  ELSE on_load_poll_from_database([s EXCEPT !.last.db_reads = @ \cup {poll_id}],
                                  poll_id)

\* get_poll_force, lines 294-309: the state after the call; the poll it returns
\* is polls_[poll_id] of that state, if there is one.
get_poll_force(s, poll_id) ==
  IF have_poll(s, poll_id) THEN s
  ELSE IF ~s.use_message_db THEN s
  ELSE IF poll_id \in s.loaded_from_database_polls_ THEN s
  ELSE on_load_poll_from_database([s EXCEPT !.last.db_reads = @ \cup {poll_id}],
                                  poll_id)

\* have_poll_force, lines 290-292: the state after the call, its answer (1 for
\* true, 0 for false) in last.result.
have_poll_force(s, poll_id) ==
  LET s1 == get_poll_force(s, poll_id) IN
  [s1 EXCEPT !.last.result = IF have_poll(s1, poll_id) THEN 1 ELSE 0]

\* ------------------------------------------------------------ closing a poll
\* stop_local_poll, lines 724-734.
stop_local_poll(s, poll_id) ==
  IF ~is_local_poll_id(poll_id) \/ ~have_poll(s, poll_id) THEN CheckFail(s)
  ELSE IF s.polls_[poll_id].is_closed THEN s
  ELSE notify_on_poll_update([s EXCEPT !.polls_[poll_id].is_closed = TRUE], poll_id)

\* do_stop_poll, lines 710-722.  The actor carries the promise built by
\* get_erase_logevent_promise(logevent_id, promise).
do_stop_poll(s, poll_id, full_message_id, logevent_id, promise) ==
  LET add == logevent_id = 0 /\ s.use_message_db
      s1 == IF add THEN binlog_add(s, "StopPoll", poll_id, full_message_id, <<>>)
            ELSE s
      id == IF add THEN s.next_logevent_id ELSE logevent_id
  IN [s1 EXCEPT !.net_actors = @ \cup {[kind |-> "StopPollActor",
                                        poll_id |-> poll_id,
                                        full_message_id |-> full_message_id,
                                        options |-> <<>>, generation |-> 0,
                                        logevent_id |-> id,
                                        promise |-> promise]}]

\* A stop_poll that does not look at the closed flag of a server poll.
stop_poll_without_closed_test(s, poll_id, full_message_id, promise) ==
  IF is_local_poll_id(poll_id)
  THEN set_value(stop_local_poll(s, poll_id), promise)
  ELSE IF ~have_poll(s, poll_id) THEN CheckFail(s)
  ELSE LET s1 == [s EXCEPT !.current_generation_ = @ + 1,
                           !.polls_[poll_id].is_closed = TRUE]
           s2 == save_poll(notify_on_poll_update(s1, poll_id), poll_id)
       IN do_stop_poll(s2, poll_id, full_message_id, 0, promise)

\* A stop_poll that drops the poll's pending answer and cancels its request.
stop_poll_cancelling_vote(s, poll_id, full_message_id, promise) ==
  IF is_local_poll_id(poll_id)
  THEN set_value(stop_local_poll(s, poll_id), promise)
  ELSE IF ~have_poll(s, poll_id) THEN CheckFail(s)
  ELSE IF s.polls_[poll_id].is_closed
  THEN set_value(s, promise)
  ELSE LET s1 == [s EXCEPT !.current_generation_ = @ + 1,
                           !.polls_[poll_id].is_closed = TRUE,
                           !.pending_answers_ = Erase(@, poll_id)]
           s2 == save_poll(notify_on_poll_update(s1, poll_id), poll_id)
       IN do_stop_poll(s2, poll_id, full_message_id, 0, promise)

\* stop_poll, lines 669-690.
stop_poll(s, poll_id, full_message_id, promise) ==
  IF is_local_poll_id(poll_id)
  THEN LET s1 == stop_local_poll(s, poll_id) IN
       IF s1.check_failed THEN s1
       ELSE set_value(s1, promise)
  ELSE IF ~have_poll(s, poll_id) THEN CheckFail(s)
  ELSE IF s.polls_[poll_id].is_closed
  THEN set_value(s, promise)
  ELSE LET s1 == [s EXCEPT !.current_generation_ = @ + 1,
                           !.polls_[poll_id].is_closed = TRUE]
           s2 == save_poll(notify_on_poll_update(s1, poll_id), poll_id)
       IN IF s2.check_failed THEN s2
          ELSE do_stop_poll(s2, poll_id, full_message_id, 0, promise)

\* get_erase_logevent_promise: the promise that erases the log entry (if any) and
\* then resolves the caller's promise with the result.
erase_logevent_promise(s, logevent_id, promise, result) ==
  LET s1 == IF logevent_id = 0 THEN s ELSE binlog_erase(s, logevent_id) IN
  set_result(s1, promise, result)

\* An on_error that reports every failure of a close as success.
StopPollActor_on_error_as_success(s, logevent_id, promise, status) ==
  erase_logevent_promise(s, logevent_id, promise, "ok")

\* StopPollActor::on_error, lines 172-178.
StopPollActor_on_error(s, logevent_id, promise, status) ==
  IF ~s.is_bot /\ status = "MESSAGE_NOT_MODIFIED"
  THEN erase_logevent_promise(s, logevent_id, promise, "ok")
  ELSE erase_logevent_promise(s, logevent_id, promise, status)

\* StopPollActor::send, lines 139-157.  have_access is the answer of
\* get_input_peer(dialog_id, AccessRights::Edit).
StopPollActor_send(s, actor, have_access) ==
  LET s1 == [s EXCEPT !.net_actors = @ \ {actor}] IN
  IF ~have_access
  THEN StopPollActor_on_error(s1, actor.logevent_id, actor.promise,
                              "Can't access the chat")
  ELSE [s1 EXCEPT !.net_queries = @ \cup {[kind |-> "editMessage", id |-> 0,
                                           poll_id |-> actor.poll_id,
                                           full_message_id |-> actor.full_message_id,
                                           options |-> <<>>, generation |-> 0,
                                           logevent_id |-> actor.logevent_id,
                                           promise |-> actor.promise,
                                           cancelled |-> FALSE]}]

\* StopPollActor::on_result, lines 159-170, with on_error for a failure.
StopPollActor_on_result(s, query, result) ==
  LET s1 == [s EXCEPT !.net_queries = @ \ {query}] IN
  IF result = "ok"
  THEN erase_logevent_promise(s1, query.logevent_id, query.promise, "ok")
  ELSE StopPollActor_on_error(s1, query.logevent_id, query.promise, result)

\* ------------------------------------------------------- the vote percentages
RECURSIVE sum_of(_)
sum_of(counts) == IF counts = <<>> THEN 0 ELSE Head(counts) + sum_of(Tail(counts))

\* get_vote_percentage, lines 317-322: TRUE when a CHECK of the summing loop
\* fails; sum is the sum of the counts before.
RECURSIVE sum_check_fails(_, _)
sum_check_fails(voter_counts, sum) ==
  IF voter_counts = <<>> THEN FALSE
  ELSE \/ Head(voter_counts) < 0
       \/ Head(voter_counts) > Int32Max - sum
       \/ sum_check_fails(Tail(voter_counts), sum + Head(voter_counts))

\* The division of C++ integers: the quotient is truncated towards zero.
int_div(a, b) ==
  LET abs(x) == IF x < 0 THEN 0 - x ELSE x
      q == abs(a) \div abs(b)
  IN IF (a < 0) = (b < 0) THEN q ELSE 0 - q

\* A fallback that rounds every share down.
round_to_floor(voter_counts, total_voter_count) ==
  [i \in 1..Len(voter_counts) |->
     int_div(voter_counts[i] * 100, total_voter_count)]

\* get_vote_percentage, lines 336-342: each share rounded to the nearest.
round_to_nearest(voter_counts, total_voter_count) ==
  [i \in 1..Len(voter_counts) |->
     int_div(int_div(voter_counts[i] * 200 + total_voter_count, total_voter_count), 2)]

\* get_vote_percentage, lines 349-350: the share rounded down.
rounded_down(voter_count, total_voter_count) ==
  (voter_count * 100) \div total_voter_count

\* get_vote_percentage, line 352: what the share lacks to the next percent.
gap_of(voter_count, total_voter_count) ==
  (rounded_down(voter_count, total_voter_count) + 1) * total_voter_count
    - voter_count * 100

\* get_vote_percentage, lines 351-356: TRUE when a CHECK on the rounded shares
\* fails.
shares_check_fails(voter_counts, total_voter_count) ==
  LET result == [i \in 1..Len(voter_counts) |->
                   rounded_down(voter_counts[i], total_voter_count)]
  IN \/ \E i \in 1..Len(voter_counts) :
          \/ ~(0 <= result[i] /\ result[i] <= 100)
          \/ ~(/\ 0 <= gap_of(voter_counts[i], total_voter_count)
               /\ gap_of(voter_counts[i], total_voter_count) <= total_voter_count)
     \/ ~(0 <= sum_of(result) /\ sum_of(result) <= 100)

\* get_vote_percentage, lines 367-372: one Option per distinct count, with the
\* number of positions that hold it.
count_groups(voter_counts) ==
  {[voter_count |-> c,
    count |-> Cardinality({i \in 1..Len(voter_counts) : voter_counts[i] = c})] :
     c \in Range(voter_counts)}

\* A filter that lets every half be rounded up.
may_round_up_every_half(option, total_voter_count) ==
  gap_of(option.voter_count, total_voter_count) <= total_voter_count \div 2

\* get_vote_percentage, lines 374-385: the options that may be rounded up.
may_round_up(option, total_voter_count) ==
  LET gap == gap_of(option.voter_count, total_voter_count) IN
  /\ ~(gap > total_voter_count \div 2)
  /\ ~(/\ total_voter_count % 2 = 0
       /\ gap = total_voter_count \div 2
       /\ rounded_down(option.voter_count, total_voter_count) >= 50)

\* get_vote_percentage, lines 386-392: the comparator of std::sort.
sorts_before(lhs, rhs, total_voter_count) ==
  LET gl == gap_of(lhs.voter_count, total_voter_count)
      gr == gap_of(rhs.voter_count, total_voter_count)
  IN IF gl # gr THEN gl < gr ELSE lhs.count > rhs.count

\* The orders std::sort can leave the options in: the order of options the
\* comparator does not tell apart is that of the unordered_map and the sort.
sorted_options(options, total_voter_count) ==
  LET n == Cardinality(options) IN
  {order \in [1..n -> options] :
     /\ \A i, j \in 1..n : i # j => order[i] # order[j]
     /\ \A i, j \in 1..n :
          i < j => ~sorts_before(order[j], order[i], total_voter_count)}

\* A rounding up that raises one position of the option only.
RECURSIVE round_up_one_position(_, _, _, _)
round_up_one_position(voter_counts, result, order, left_percent) ==
  IF order = <<>> \/ left_percent = 0 THEN result
  ELSE LET option == Head(order)
           pos == CHOOSE i \in 1..Len(result) : voter_counts[i] = option.voter_count
       IN IF option.count <= left_percent
          THEN round_up_one_position(voter_counts, [result EXCEPT ![pos] = @ + 1],
                                     Tail(order), left_percent - option.count)
          ELSE round_up_one_position(voter_counts, result, Tail(order), left_percent)

\* get_vote_percentage, lines 395-410: the greedy rounding up.
RECURSIVE round_up(_, _, _, _)
round_up(voter_counts, result, order, left_percent) ==
  IF order = <<>> \/ left_percent = 0 THEN result
  ELSE LET option == Head(order) IN
       IF option.count <= left_percent
       THEN round_up(voter_counts,
                     [i \in 1..Len(result) |->
                        IF voter_counts[i] = option.voter_count THEN result[i] + 1
                        ELSE result[i]],
                     Tail(order), left_percent - option.count)
       ELSE round_up(voter_counts, result, Tail(order), left_percent)

\* get_vote_percentage, lines 316-411: the outcomes the call can have, one per
\* order of the sort; check_failed tells that a CHECK aborted the call.
get_vote_percentage(voter_counts, total_voter_count_arg) ==
  LET zeros == [i \in 1..Len(voter_counts) |-> 0]
      Failed == {[check_failed |-> TRUE, result |-> <<>>]}
      Done(result) == {[check_failed |-> FALSE, result |-> result]}
  IN
  IF sum_check_fails(voter_counts, 0) THEN Failed
  ELSE
    LET sum == sum_of(voter_counts)
        total_voter_count == IF total_voter_count_arg > sum THEN sum
                             ELSE total_voter_count_arg
    IN
    IF total_voter_count = 0 THEN Done(zeros)
    ELSE IF total_voter_count # sum
    THEN Done(round_to_nearest(voter_counts, total_voter_count))
    ELSE IF shares_check_fails(voter_counts, total_voter_count) THEN Failed
    ELSE
      LET result == [i \in 1..Len(voter_counts) |->
                       rounded_down(voter_counts[i], total_voter_count)]
          percent_sum == sum_of(result)
          options == {o \in count_groups(voter_counts) :
                        may_round_up(o, total_voter_count)}
      IN IF percent_sum = 100 THEN Done(result)
         ELSE {[check_failed |-> FALSE,
                result |-> round_up(voter_counts, result, order, 100 - percent_sum)] :
                  order \in sorted_options(options, total_voter_count)}

\* ------------------------------------------------------ the public read model
\* get_poll_object, lines 416-434: the option objects, over a pending answer if
\* the poll has one.
poll_option_objects(poll, has_pending_answer, chosen_options) ==
  [i \in 1..Len(poll.options) |->
     LET poll_option == poll.options[i] IN
     IF ~has_pending_answer
     THEN [text |-> poll_option.text, voter_count |-> poll_option.voter_count,
           vote_percentage |-> 0, is_chosen |-> poll_option.is_chosen,
           is_being_chosen |-> FALSE]
     ELSE [text |-> poll_option.text,
           voter_count |-> poll_option.voter_count
                             - (IF poll_option.is_chosen THEN 1 ELSE 0),
           vote_percentage |-> 0, is_chosen |-> FALSE,
           is_being_chosen |-> poll_option.data \in Range(chosen_options)]]

\* get_poll_object, lines 426-428.
voter_count_diff(poll, has_pending_answer) ==
  IF has_pending_answer /\ \E i \in 1..Len(poll.options) : poll.options[i].is_chosen
  THEN -1 ELSE 0

\* get_poll_object, lines 436-445: the counts are hidden until the user has voted
\* or the poll is closed.
hide_voter_counts(poll_options, is_closed) ==
  LET is_voted == \E i \in 1..Len(poll_options) : poll_options[i].is_chosen IN
  IF ~is_voted /\ ~is_closed
  THEN [i \in 1..Len(poll_options) |-> [poll_options[i] EXCEPT !.voter_count = 0]]
  ELSE poll_options

\* get_poll_object, lines 449-454: the total is raised to the largest count.
RECURSIVE raise_total(_, _)
raise_total(total_voter_count, voter_counts) ==
  IF voter_counts = <<>> THEN total_voter_count
  ELSE raise_total(IF total_voter_count < Head(voter_counts)
                   THEN Head(voter_counts) ELSE total_voter_count,
                   Tail(voter_counts))

\* get_poll_object, lines 413-461: the outcomes the call can have (one per
\* outcome of get_vote_percentage); check_failed tells that a CHECK aborted it.
get_poll_object(s, poll_id) ==
  IF ~have_poll(s, poll_id) THEN {[check_failed |-> TRUE, result |-> <<>>]}
  ELSE
    LET poll == s.polls_[poll_id]
        has_pending_answer == poll_id \in DOMAIN s.pending_answers_
        chosen_options == IF has_pending_answer
                          THEN s.pending_answers_[poll_id].options_ ELSE <<>>
        poll_options == hide_voter_counts(
                          poll_option_objects(poll, has_pending_answer,
                                              chosen_options),
                          poll.is_closed)
        voter_counts == [i \in 1..Len(poll_options) |-> poll_options[i].voter_count]
        total_voter_count ==
          raise_total(poll.total_voter_count
                        + voter_count_diff(poll, has_pending_answer),
                      voter_counts)
    IN {IF outcome.check_failed THEN [check_failed |-> TRUE, result |-> <<>>]
        ELSE [check_failed |-> FALSE,
              result |-> [question |-> poll.question,
                          options |-> [i \in 1..Len(poll_options) |->
                                         [poll_options[i] EXCEPT
                                            !.vote_percentage = outcome.result[i]]],
                          total_voter_count |-> total_voter_count,
                          is_closed |-> poll.is_closed]] :
          outcome \in get_vote_percentage(voter_counts, total_voter_count)}

\* -------------------------------------------------------- the server merge
\* A default-constructed Poll.
NewPoll == [question |-> "", options |-> <<>>, total_voter_count |-> 0,
            is_closed |-> FALSE]

\* No telegram_api::poll (poll_server == nullptr).
NoPollServer == [present |-> FALSE, id |-> 0, question |-> "", answers |-> <<>>,
                 closed |-> FALSE]

\* get_poll_options, lines 806-814.
get_poll_options(answers) ==
  [i \in 1..Len(answers) |-> [text |-> answers[i].text, data |-> answers[i].data,
                              voter_count |-> 0, is_chosen |-> FALSE]]

\* on_get_poll, lines 854-865: one position of the option list.
merge_answer(option, answer) ==
  LET o1 == IF option.text # answer.text THEN [option EXCEPT !.text = answer.text]
            ELSE option
  IN IF o1.data # answer.data
     THEN [o1 EXCEPT !.data = answer.data, !.voter_count = 0, !.is_chosen = FALSE]
     ELSE o1

\* on_get_poll, lines 845-872: the metadata block.  Returns the poll and is_changed.
merge_poll_server(poll, poll_server) ==
  LET p1 == IF poll.question # poll_server.question
            THEN [poll EXCEPT !.question = poll_server.question] ELSE poll
      p2 == IF Len(p1.options) # Len(poll_server.answers)
            THEN [p1 EXCEPT !.options = get_poll_options(poll_server.answers)]
            ELSE [p1 EXCEPT !.options =
                    [i \in 1..Len(p1.options) |->
                       merge_answer(p1.options[i], poll_server.answers[i])]]
      p3 == IF poll_server.closed # p2.is_closed
            THEN [p2 EXCEPT !.is_closed = poll_server.closed] ELSE p2
  IN [poll |-> p3, is_changed |-> p3 # poll]

\* on_get_poll, lines 877-884: the reported total.
merge_total_voters(m, poll_results) ==
  IF poll_results.has_total /\ poll_results.total_voters # m.poll.total_voter_count
  THEN [poll |-> [m.poll EXCEPT !.total_voter_count =
                    IF poll_results.total_voters < 0 THEN 0
                    ELSE poll_results.total_voters],
        is_changed |-> TRUE]
  ELSE m

\* merge_result with the chosen flag taken from the entry even when the results
\* are minimal.
merge_result_ignoring_min(m, i, poll_result, is_min) ==
  LET option == m.poll.options[i] IN
  IF option.data # poll_result.option THEN m
  ELSE
    LET set_chosen == poll_result.chosen # option.is_chosen
        is_chosen == IF set_chosen THEN poll_result.chosen ELSE option.is_chosen
        set_count == poll_result.voters # option.voter_count
        c1 == IF poll_result.voters < 0 THEN 0 ELSE poll_result.voters
        c2 == IF is_chosen /\ c1 = 0 THEN 1 ELSE c1
        total == IF c2 > m.poll.total_voter_count THEN c2
                 ELSE m.poll.total_voter_count
        max_voter_count == (Int32Max \div Len(m.poll.options)) - 2
        c3 == IF c2 > max_voter_count THEN max_voter_count ELSE c2
    IN [poll |-> [m.poll EXCEPT
                    !.options[i].is_chosen = is_chosen,
                    !.options[i].voter_count = IF set_count THEN c3 ELSE @,
                    !.total_voter_count = IF set_count THEN total ELSE @],
        is_changed |-> m.is_changed \/ set_chosen \/ set_count]

\* on_get_poll, lines 888-919: one result entry met with option i of the poll.
merge_result(m, i, poll_result, is_min) ==
  LET option == m.poll.options[i] IN
  IF option.data # poll_result.option THEN m
  ELSE
    LET set_chosen == ~is_min /\ poll_result.chosen # option.is_chosen
        is_chosen == IF set_chosen THEN poll_result.chosen ELSE option.is_chosen
        set_count == poll_result.voters # option.voter_count
        c1 == IF poll_result.voters < 0 THEN 0 ELSE poll_result.voters
        c2 == IF is_chosen /\ c1 = 0 THEN 1 ELSE c1
        total == IF c2 > m.poll.total_voter_count THEN c2
                 ELSE m.poll.total_voter_count
        max_voter_count == (Int32Max \div Len(m.poll.options)) - 2
        c3 == IF c2 > max_voter_count THEN max_voter_count ELSE c2
    IN [poll |-> [m.poll EXCEPT
                    !.options[i].is_chosen = is_chosen,
                    !.options[i].voter_count = IF set_count THEN c3 ELSE @,
                    !.total_voter_count = IF set_count THEN total ELSE @],
        is_changed |-> m.is_changed \/ set_chosen \/ set_count]

\* on_get_poll, lines 887-920: one result entry met with options i..n in order.
RECURSIVE merge_result_options(_, _, _, _)
merge_result_options(m, i, poll_result, is_min) ==
  IF i > Len(m.poll.options) THEN m
  ELSE merge_result_options(merge_result(m, i, poll_result, is_min), i + 1,
                            poll_result, is_min)

\* on_get_poll, lines 885-921: the result entries in order.
RECURSIVE merge_results(_, _, _)
merge_results(m, results, is_min) ==
  IF results = <<>> THEN m
  ELSE merge_results(merge_result_options(m, 1, Head(results), is_min),
                     Tail(results), is_min)

RECURSIVE sum_voter_counts(_)
sum_voter_counts(options) ==
  IF options = <<>> THEN 0
  ELSE Head(options).voter_count + sum_voter_counts(Tail(options))

\* on_get_poll, lines 922-932.
fix_total_voter_count(m, poll_results) ==
  IF poll_results.results # <<>> /\ poll_results.has_total
  THEN LET max_total_voter_count == sum_voter_counts(m.poll.options) IN
       IF m.poll.total_voter_count > max_total_voter_count
          /\ max_total_voter_count # 0
       THEN [m EXCEPT !.poll.total_voter_count = max_total_voter_count]
       ELSE m
  ELSE m

\* get_polling_timeout, lines 736-739, in hundredths of a second; percent is the
\* value of Random::fast(70, 100).
get_polling_timeout(s, percent) == (IF s.is_online THEN 60 ELSE 30 * 60) * percent

\* on_get_poll, lines 934-938.
rearm_after_merge(s, poll_id, percent) ==
  IF ~s.is_bot /\ ~s.polls_[poll_id].is_closed
  THEN [s EXCEPT !.update_poll_timeout_ =
                    Put(@, poll_id, get_polling_timeout(s, percent))]
  ELSE s

\* The id on_get_poll returns is recorded in last.result.
Return(s, poll_id) == [s EXCEPT !.last.result = poll_id]

\* on_get_poll, lines 816-944.
on_get_poll(s, poll_id_arg, poll_server, poll_results, percent) ==
  LET poll_id == IF poll_id_arg = 0 /\ poll_server.present THEN poll_server.id
                 ELSE poll_id_arg
  IN
  IF poll_id = 0 \/ is_local_poll_id(poll_id) THEN Return(s, 0)
  ELSE IF poll_server.present /\ poll_server.id # poll_id THEN Return(s, 0)
  ELSE
    LET s1 == get_poll_force(s, poll_id) IN
    IF s1.check_failed THEN s1
    ELSE IF ~have_poll(s1, poll_id) /\ ~poll_server.present THEN Return(s1, 0)
    ELSE
      LET poll == IF have_poll(s1, poll_id) THEN s1.polls_[poll_id] ELSE NewPoll
          m0 == IF poll_server.present THEN merge_poll_server(poll, poll_server)
                ELSE [poll |-> poll, is_changed |-> FALSE]
          m1 == merge_total_voters(m0, poll_results)
          m2 == merge_results(m1, poll_results.results, poll_results.min)
          m3 == fix_total_voter_count(m2, poll_results)
          s2 == [s1 EXCEPT !.polls_ = Put(@, poll_id, m3.poll)]
          s3 == rearm_after_merge(s2, poll_id, percent)
          s4 == IF m3.is_changed
                THEN save_poll(notify_on_poll_update(s3, poll_id), poll_id)
                ELSE s3
      IN Return(s4, poll_id)

\* A create_poll that numbers the drafts upwards from the top of the id space
\* of the server.
create_poll_counting_up(s, question, option_texts) ==
  LET poll_id == 1 - s.current_local_poll_id_
      poll == [question |-> question,
               options |-> [i \in 1..Len(option_texts) |->
                              [text |-> option_texts[i], data |-> i - 1,
                               voter_count |-> 0, is_chosen |-> FALSE]],
               total_voter_count |-> 0, is_closed |-> FALSE]
      s1 == [s EXCEPT !.current_local_poll_id_ = @ - 1]
  IN Return([s1 EXCEPT !.polls_ = Put(@, poll_id, poll)], poll_id)

\* create_poll, lines 467-484.  Option i (from 0) gets the identifier string(1, i).
create_poll(s, question, option_texts) ==
  LET poll_id == s.current_local_poll_id_ - 1
      poll == [question |-> question,
               options |-> [i \in 1..Len(option_texts) |->
                              [text |-> option_texts[i], data |-> i - 1,
                               voter_count |-> 0, is_chosen |-> FALSE]],
               total_voter_count |-> 0, is_closed |-> FALSE]
      s1 == [s EXCEPT !.current_local_poll_id_ = poll_id]
  IN IF ~is_local_poll_id(poll_id) \/ have_poll(s1, poll_id) THEN CheckFail(s1)
     ELSE Return([s1 EXCEPT !.polls_ = Put(@, poll_id, poll)], poll_id)

\* --------------------------------------------------------- the refresh timer
\* get_poll_is_closed, lines 508-512, fails its CHECK on an unknown poll.
get_poll_is_closed_fails(s, poll_id) == ~have_poll(s, poll_id)

\* MultiTimeout::add_timeout_in keeps a timeout that is already set.
add_timeout_in(s, poll_id, timeout) ==
  IF poll_id \in DOMAIN s.update_poll_timeout_ THEN s
  ELSE [s EXCEPT !.update_poll_timeout_ = Put(@, poll_id, timeout)]

\* MultiTimeout::set_timeout_in replaces it.
set_timeout_in(s, poll_id, timeout) ==
  [s EXCEPT !.update_poll_timeout_ = Put(@, poll_id, timeout)]

\* MultiTimeout::cancel_timeout.
cancel_timeout(s, poll_id) ==
  [s EXCEPT !.update_poll_timeout_ = Erase(@, poll_id)]

\* register_poll, lines 486-494.
register_poll(s, poll_id, full_message_id) ==
  IF ~have_poll(s, poll_id) THEN CheckFail(s)
  ELSE IF poll_id \in DOMAIN s.poll_messages_
          /\ full_message_id \in s.poll_messages_[poll_id]
  THEN CheckFail(s)
  ELSE
    LET message_ids == IF poll_id \in DOMAIN s.poll_messages_
                       THEN s.poll_messages_[poll_id] ELSE {}
        s1 == [s EXCEPT !.poll_messages_ =
                          Put(@, poll_id, message_ids \cup {full_message_id})]
    IN IF ~s1.is_bot /\ ~is_local_poll_id(poll_id) /\ ~s1.polls_[poll_id].is_closed
       THEN add_timeout_in(s1, poll_id, 0)
       ELSE s1

\* unregister_poll, lines 496-506.
unregister_poll(s, poll_id, full_message_id) ==
  IF ~have_poll(s, poll_id) THEN CheckFail(s)
  ELSE IF poll_id \notin DOMAIN s.poll_messages_
          \/ full_message_id \notin s.poll_messages_[poll_id]
  THEN CheckFail(s)
  ELSE
    LET message_ids == s.poll_messages_[poll_id] \ {full_message_id} IN
    IF message_ids = {}
    THEN cancel_timeout([s EXCEPT !.poll_messages_ = Erase(@, poll_id)], poll_id)
    ELSE [s EXCEPT !.poll_messages_[poll_id] = message_ids]

\* on_update_poll_timeout_callback, lines 210-217: the timeout that fired is
\* gone; unless the process is closing, on_update_poll_timeout is sent to
\* PollManager.
on_update_poll_timeout_callback(s, poll_id) ==
  LET s1 == cancel_timeout(s, poll_id) IN
  IF s1.close_flag THEN s1
  ELSE [s1 EXCEPT !.mailbox = @ \cup {[handler |-> "on_update_poll_timeout",
                                       poll_id |-> poll_id, generation |-> 0,
                                       result |-> ""]}]

\* GetPollResultsQuery::send, lines 54-67: without read access nothing is sent
\* and PollManager is not told.
GetPollResultsQuery_send(s, poll_id, full_message_id, generation, have_access) ==
  IF ~have_access THEN s
  ELSE [s EXCEPT !.net_queries = @ \cup {[kind |-> "getPollResults", id |-> 0,
                                          poll_id |-> poll_id,
                                          full_message_id |-> full_message_id,
                                          options |-> <<>>,
                                          generation |-> generation,
                                          logevent_id |-> 0, promise |-> 0,
                                          cancelled |-> FALSE]}]

\* A timer that fetches whatever the poll's state is.
on_update_poll_timeout_without_closed_test(s, poll_id, have_access) ==
  IF s.is_bot \/ is_local_poll_id(poll_id) THEN CheckFail(s)
  ELSE IF get_poll_is_closed_fails(s, poll_id) THEN CheckFail(s)
  ELSE IF poll_id \notin DOMAIN s.poll_messages_ THEN s
  ELSE GetPollResultsQuery_send(s, poll_id,
                                CHOOSE id \in s.poll_messages_[poll_id] : TRUE,
                                s.current_generation_, have_access)

\* on_update_poll_timeout, lines 741-760.  The message of the fetch is the first
\* of the poll's registered ones.
on_update_poll_timeout(s, poll_id, have_access) ==
  IF s.is_bot \/ is_local_poll_id(poll_id) THEN CheckFail(s)
  ELSE IF get_poll_is_closed_fails(s, poll_id) THEN CheckFail(s)
  ELSE IF s.polls_[poll_id].is_closed THEN s
  ELSE IF poll_id \notin DOMAIN s.poll_messages_ THEN s
  ELSE GetPollResultsQuery_send(s, poll_id,
                                CHOOSE id \in s.poll_messages_[poll_id] : TRUE,
                                s.current_generation_, have_access)

\* GetPollResultsQuery::on_result / on_error, lines 69-83: the network's answer
\* resolves the query's promise, whose lambda (lines 755-758) sends
\* on_get_poll_results to PollManager.
GetPollResultsQuery_on_result(s, query, result) ==
  [s EXCEPT !.net_queries = @ \ {query},
            !.mailbox = @ \cup {[handler |-> "on_get_poll_results",
                                 poll_id |-> query.poll_id,
                                 generation |-> query.generation,
                                 result |-> result]}]

\* on_get_poll_results, line 781: the updates are handed to UpdatesManager, which
\* calls on_get_poll for the polls they hold; the hand-over is recorded as
\* result 1 of the handler.
UpdatesManager_on_get_updates(s) == [s EXCEPT !.last.result = 1]

\* on_get_poll_results without the comparison of the generations.
on_get_poll_results_without_generation_test(s, poll_id, generation, result, percent) ==
  IF result # "ok"
  THEN IF get_poll_is_closed_fails(s, poll_id) THEN CheckFail(s)
       ELSE IF ~s.polls_[poll_id].is_closed /\ ~s.is_bot
       THEN add_timeout_in(s, poll_id, get_polling_timeout(s, percent))
       ELSE s
  ELSE UpdatesManager_on_get_updates(s)

\* on_get_poll_results, lines 762-782.
on_get_poll_results(s, poll_id, generation, result, percent) ==
  IF result # "ok"
  THEN IF get_poll_is_closed_fails(s, poll_id) THEN CheckFail(s)
       ELSE IF ~s.polls_[poll_id].is_closed /\ ~s.is_bot
       THEN add_timeout_in(s, poll_id, get_polling_timeout(s, percent))
       ELSE s
  ELSE IF generation # s.current_generation_
  THEN IF get_poll_is_closed_fails(s, poll_id) THEN CheckFail(s)
       ELSE IF ~s.polls_[poll_id].is_closed /\ ~s.is_bot
       THEN set_timeout_in(s, poll_id, 0)
       ELSE s
  ELSE UpdatesManager_on_get_updates(s)

\* StateCallback::on_online, lines 191-196: the account's network state changes;
\* on_online is sent to PollManager when it goes online.
StateCallback_on_online(s, online) ==
  LET s1 == [s EXCEPT !.is_online = online] IN
  IF online
  THEN [s1 EXCEPT !.mailbox = @ \cup {[handler |-> "on_online", poll_id |-> 0,
                                       generation |-> 0, result |-> ""]}]
  ELSE s1

\* on_online without the has_timeout test of line 791.
on_online_without_has_timeout_test(s, timeouts) ==
  IF s.is_bot THEN s
  ELSE [s EXCEPT !.update_poll_timeout_ =
          [poll_id \in DOMAIN @ \cup DOMAIN s.poll_messages_ |->
             IF poll_id \in DOMAIN s.poll_messages_ THEN timeouts[poll_id]
             ELSE @[poll_id]]]

\* on_online, lines 784-797; timeouts[poll_id] is the value of
\* Random::fast(3, 30) for the poll, in hundredths of a second.
on_online(s, timeouts) ==
  IF s.is_bot THEN s
  ELSE [s EXCEPT !.update_poll_timeout_ =
          [poll_id \in DOMAIN @ |->
             IF poll_id \in DOMAIN s.poll_messages_ THEN timeouts[poll_id]
             ELSE @[poll_id]]]

\* ------------------------------------------------------ replay of the log
\* The entries of the log in the order of their ids.
RECURSIVE binlog_events(_)
binlog_events(entries) ==
  IF entries = {} THEN <<>>
  ELSE LET first == CHOOSE e \in entries : \A f \in entries : e.id <= f.id
       IN <<first>> \o binlog_events(entries \ {first})

\* A replay that forgets the id of the entry it replays.
replay_as_new_submission(s, event) ==
  IF ~s.use_message_db THEN binlog_erase(s, event.id)
  ELSE IF event.type = "SetPollAnswer"
  THEN do_set_poll_answer(s, event.poll_id, event.full_message_id, event.options, 0, 0)
  ELSE do_stop_poll(s, event.poll_id, event.full_message_id, 0, 0)

\* on_binlog_events, lines 949-985: one event.
on_binlog_event(s, event) ==
  IF ~s.use_message_db THEN binlog_erase(s, event.id)
  ELSE IF event.type = "SetPollAnswer"
  THEN do_set_poll_answer(s, event.poll_id, event.full_message_id, event.options,
                          event.id, 0)
  ELSE do_stop_poll(s, event.poll_id, event.full_message_id, event.id, 0)

\* on_binlog_events, lines 946-990.
RECURSIVE on_binlog_events(_, _)
on_binlog_events(s, events) ==
  IF events = <<>> \/ s.check_failed THEN s
  ELSE on_binlog_events(on_binlog_event(s, Head(events)), Tail(events))

\* A new process: the members as constructed; the durable log, the key-value
\* store and the account survive.
NewProcess(s, durable, online) ==
  [s EXCEPT !.polls_ = EmptyMap, !.poll_messages_ = EmptyMap,
            !.pending_answers_ = EmptyMap, !.loaded_from_database_polls_ = {},
            !.current_generation_ = 0, !.current_local_poll_id_ = 0,
            !.update_poll_timeout_ = EmptyMap, !.use_message_db = durable,
            !.is_online = online, !.close_flag = FALSE, !.net_actors = {},
            !.net_queries = {}, !.mailbox = {}, !.promises = {},
            !.check_failed = FALSE]

\* --------------------------------------------------------------- the inputs
Results == {"ok", "SERVER_ERROR"}
StopResults == {"ok", "MESSAGE_NOT_MODIFIED", "SERVER_ERROR"}
Percents == {100}

NoResults == [min |-> FALSE, has_total |-> FALSE, total_voters |-> 0,
              results |-> <<>>]

PollServer(poll_id, closed) ==
  [present |-> TRUE, id |-> poll_id, question |-> "Q", answers |-> ServerAnswers,
   closed |-> closed]

\* ----------------------------------------------------------------- actions
Running == ~check_failed

\* The state after construction, for an account of one of the kinds in bots and
\* durability on or off as in durables.
InitWith(bots, durables) ==
  /\ polls_ = EmptyMap
  /\ poll_messages_ = EmptyMap
  /\ pending_answers_ = EmptyMap
  /\ loaded_from_database_polls_ = {}
  /\ current_generation_ = 0
  /\ current_local_poll_id_ = 0
  /\ update_poll_timeout_ = EmptyMap
  /\ use_message_db \in durables
  /\ is_bot \in bots
  /\ is_online = TRUE
  /\ close_flag = FALSE
  /\ binlog = {}
  /\ next_logevent_id = 1
  /\ database = EmptyMap
  /\ net_actors = {}
  /\ net_queries = {}
  /\ mailbox = {}
  /\ promises = {}
  /\ next_promise = 1
  /\ check_failed = FALSE
  /\ restarts = 0
  /\ last = Last("start_up", <<>>)

Init == InitWith({FALSE}, BOOLEAN)

\* A caller's new promise.
NewPromise(s) == [s EXCEPT !.promises = @ \cup {s.next_promise},
                           !.next_promise = @ + 1]

SetPollAnswerOf(poll_ids) ==
  /\ Running
  /\ next_promise <= MaxPromises
  /\ current_generation_ < MaxGeneration
  /\ next_logevent_id <= MaxLogEvents
  /\ \E poll_id \in poll_ids, full_message_id \in FullMessageIds,
        option_ids \in OptionIdInputs :
       LET promise == next_promise IN
       Set(set_poll_answer(
             NewPromise(Begin("set_poll_answer",
                              [poll_id |-> poll_id, full_message_id |-> full_message_id,
                               option_ids |-> option_ids, promise |-> promise])),
             poll_id, full_message_id, option_ids, promise))

\* A vote on a poll shown in a message: the poll is in the registry.
SetPollAnswer == SetPollAnswerOf(DOMAIN polls_)

\* A vote on a poll of the registry, or on any id of the local range.
SetPollAnswerAnyId == SetPollAnswerOf((DOMAIN polls_) \cup LocalPollIds)

SetPollAnswerActorSend ==
  /\ Running
  /\ \E actor \in net_actors, have_access \in BOOLEAN :
       /\ actor.kind = "SetPollAnswerActor"
       /\ Set(SetPollAnswerActor_send(
                Begin("SetPollAnswerActor::send",
                      [poll_id |-> actor.poll_id, generation |-> actor.generation,
                       have_access |-> have_access]),
                actor, have_access))

SetPollAnswerActorOnResult ==
  /\ Running
  /\ \E query \in net_queries, result \in Results :
       /\ query.kind = "sendVote"
       /\ Set(SetPollAnswerActor_on_result(
                Begin("SetPollAnswerActor::on_result",
                      [poll_id |-> query.poll_id, generation |-> query.generation,
                       result |-> result]),
                query, result))

OnSetPollAnswer ==
  /\ Running
  /\ \E m \in mailbox :
       /\ m.handler = "on_set_poll_answer"
       /\ Set(on_set_poll_answer(
                [Begin("on_set_poll_answer",
                       [poll_id |-> m.poll_id, generation |-> m.generation,
                        result |-> m.result])
                   EXCEPT !.mailbox = @ \ {m}],
                m.poll_id, m.generation, m.result))

StopPoll ==
  /\ Running
  /\ next_promise <= MaxPromises
  /\ current_generation_ < MaxGeneration
  /\ next_logevent_id <= MaxLogEvents
  /\ \E poll_id \in DOMAIN polls_, full_message_id \in FullMessageIds :
       LET promise == next_promise IN
       Set(stop_poll(
             NewPromise(Begin("stop_poll",
                              [poll_id |-> poll_id, full_message_id |-> full_message_id,
                               promise |-> promise])),
             poll_id, full_message_id, promise))

StopPollActorSend ==
  /\ Running
  /\ \E actor \in net_actors, have_access \in BOOLEAN :
       /\ actor.kind = "StopPollActor"
       /\ Set(StopPollActor_send(
                Begin("StopPollActor::send",
                      [poll_id |-> actor.poll_id, promise |-> actor.promise,
                       have_access |-> have_access]),
                actor, have_access))

StopPollActorOnResult ==
  /\ Running
  /\ \E query \in net_queries, result \in StopResults :
       /\ query.kind = "editMessage"
       /\ Set(StopPollActor_on_result(
                Begin("StopPollActor::on_result",
                      [poll_id |-> query.poll_id, promise |-> query.promise,
                       result |-> result]),
                query, result))

OnGetPoll ==
  /\ Running
  /\ \E poll_id \in ServerPollIds, closed \in BOOLEAN, percent \in Percents :
       \E poll_server \in {NoPollServer, PollServer(poll_id, closed)} :
         Set(on_get_poll(
               Begin("on_get_poll",
                     [poll_id |-> poll_id, poll_server |-> poll_server,
                      poll_results |-> NoResults, percent |-> percent]),
               poll_id, poll_server, NoResults, percent))

CreatePoll ==
  /\ Running
  /\ current_local_poll_id_ > 0 - MaxLocalPolls
  /\ Set(create_poll(Begin("create_poll", <<>>), "Q", <<"A", "B">>))

\* G()->close_flag() becomes true: the process is shutting down.
Close ==
  /\ Running
  /\ ~close_flag
  /\ Set([Begin("close", <<>>) EXCEPT !.close_flag = TRUE])

\* The process ends (it was closing, or a CHECK aborted it) and a new one starts:
\* Td::init replays the log through on_binlog_events before any request.
Restart ==
  /\ close_flag \/ check_failed
  /\ restarts < MaxRestarts
  /\ \E durable \in BOOLEAN :
       LET s0 == NewProcess([Begin("on_binlog_events", [durable |-> durable])
                               EXCEPT !.restarts = @ + 1],
                            durable, is_online)
       IN Set(on_binlog_events(s0, binlog_events(binlog)))

Next ==
  \/ SetPollAnswer
  \/ SetPollAnswerActorSend
  \/ SetPollAnswerActorOnResult
  \/ OnSetPollAnswer
  \/ StopPoll
  \/ StopPollActorSend
  \/ StopPollActorOnResult
  \/ OnGetPoll
  \/ Close
  \/ Restart

\* Votes, closes, server merges, shutdown and restart on the server polls.
Spec == Init /\ [][Next]_vars

\* on_get_poll for an id of the local range, given as the argument or, with the
\* argument 0, as the id of the poll the server sent.
OnGetPollLocalId ==
  /\ Running
  /\ \E local_id \in LocalPollIds, closed \in BOOLEAN, percent \in Percents :
       \E call \in {[poll_id |-> local_id, poll_server |-> NoPollServer],
                    [poll_id |-> local_id,
                     poll_server |-> PollServer(local_id, closed)],
                    [poll_id |-> 0, poll_server |-> PollServer(local_id, closed)]} :
         Set(on_get_poll(
               Begin("on_get_poll",
                     [poll_id |-> call.poll_id, poll_server |-> call.poll_server,
                      poll_results |-> NoResults, percent |-> percent]),
               call.poll_id, call.poll_server, NoResults, percent))

NextDraft ==
  \/ CreatePoll
  \/ OnGetPoll
  \/ OnGetPollLocalId
  \/ SetPollAnswerAnyId
  \/ SetPollAnswerActorSend
  \/ SetPollAnswerActorOnResult
  \/ OnSetPollAnswer
  \/ StopPoll

\* Draft polls beside the server polls: create_poll, votes on any id, closes.
SpecDraft == Init /\ [][NextDraft]_vars

\* The inputs of get_vote_percentage: up to MaxOptions counts of 0..MaxVoterCount
\* and a total from -1 to above every sum.
VoterCountInputs == UNION {[1..n -> 0..MaxVoterCount] : n \in 0..MaxOptions}
TotalInputs == (-1)..(MaxOptions * MaxVoterCount + 1)

\* get_vote_percentage reads and writes no state: one call from the initial state
\* reaches every outcome it has.
GetVotePercentage ==
  /\ Running
  /\ last.op = "start_up"
  /\ \E voter_counts \in VoterCountInputs, total_voter_count \in TotalInputs :
       \E outcome \in get_vote_percentage(voter_counts, total_voter_count) :
         Set([Begin("get_vote_percentage",
                    [voter_counts |-> voter_counts,
                     total_voter_count |-> total_voter_count])
                EXCEPT !.last.result = outcome.result,
                       !.check_failed = outcome.check_failed])

\* get_vote_percentage on its own.
NextPercent == GetVotePercentage
SpecPercent == Init /\ [][NextPercent]_vars

\* The poll results the server may send for the poll of ServerAnswers: full or
\* min results, without a total or with one (negative, below or above the
\* counts), that hold no entry, one entry for the first option (its count
\* negative, zero or above the total, chosen or not), or an entry for each
\* option.
ResultVoters == {-1, 0, 2}
ResultTotals == {-1, 1, 3}
ResultEntries ==
  {[option |-> ServerAnswers[1].data, voters |-> voters, chosen |-> chosen] :
     voters \in ResultVoters, chosen \in BOOLEAN}
ResultLists ==
  {<<>>} \cup {<<r>> : r \in ResultEntries}
         \cup {<< [option |-> ServerAnswers[1].data, voters |-> 2, chosen |-> TRUE],
                  [option |-> ServerAnswers[2].data, voters |-> 1, chosen |-> FALSE] >>}
PollResultsInputs ==
  {[min |-> min, has_total |-> total_voters \in ResultTotals,
    total_voters |-> total_voters, results |-> results] :
     min \in BOOLEAN, total_voters \in ResultTotals \cup {0},
     results \in ResultLists}

\* on_get_poll with any of these results; the handler's record keeps the poll id
\* only.
OnGetPollWithResults ==
  /\ Running
  /\ \E poll_id \in ServerPollIds, closed \in BOOLEAN, percent \in Percents,
        poll_results \in PollResultsInputs :
       \E poll_server \in {NoPollServer, PollServer(poll_id, closed)} :
         Set(on_get_poll(Begin("on_get_poll", [poll_id |-> poll_id]),
                         poll_id, poll_server, poll_results, percent))

GetPollObject ==
  /\ Running
  /\ \E poll_id \in DOMAIN polls_ :
       \E outcome \in get_poll_object(Cur, poll_id) :
         Set([Begin("get_poll_object", [poll_id |-> poll_id])
                EXCEPT !.last.result = outcome.result,
                       !.check_failed = outcome.check_failed])

\* Server merges with results, votes and closes (their requests stay in
\* flight), and reads of the public model; durability, which takes no part in
\* the merge, is off.
NextMerge ==
  \/ OnGetPollWithResults
  \/ SetPollAnswer
  \/ StopPoll
  \/ GetPollObject
InitMerge == InitWith({FALSE}, {FALSE})
SpecMerge == InitMerge /\ [][NextMerge]_vars

\* The values of Random::fast(3, 30) in on_online, in hundredths of a second.
OnlineTimeouts == {300, 3000}

RegisterPoll ==
  /\ Running
  /\ \E poll_id \in DOMAIN polls_, full_message_id \in FullMessageIds :
       /\ poll_id \in DOMAIN poll_messages_
            => full_message_id \notin poll_messages_[poll_id]
       /\ Set(register_poll(Begin("register_poll",
                                  [poll_id |-> poll_id,
                                   full_message_id |-> full_message_id]),
                            poll_id, full_message_id))

UnregisterPoll ==
  /\ Running
  /\ \E poll_id \in DOMAIN poll_messages_ :
       \E full_message_id \in poll_messages_[poll_id] :
         Set(unregister_poll(Begin("unregister_poll",
                                   [poll_id |-> poll_id,
                                    full_message_id |-> full_message_id]),
                             poll_id, full_message_id))

\* A timeout of update_poll_timeout_ expires.
UpdatePollTimeoutExpires ==
  /\ Running
  /\ \E poll_id \in DOMAIN update_poll_timeout_ :
       Set(on_update_poll_timeout_callback(
             Begin("on_update_poll_timeout_callback", [poll_id |-> poll_id]),
             poll_id))

OnUpdatePollTimeout ==
  /\ Running
  /\ \E m \in mailbox, have_access \in BOOLEAN :
       /\ m.handler = "on_update_poll_timeout"
       /\ Set(on_update_poll_timeout(
                [Begin("on_update_poll_timeout",
                       [poll_id |-> m.poll_id, have_access |-> have_access])
                   EXCEPT !.mailbox = @ \ {m}],
                m.poll_id, have_access))

GetPollResultsQueryOnResult ==
  /\ Running
  /\ \E query \in net_queries, result \in Results :
       /\ query.kind = "getPollResults"
       /\ Set(GetPollResultsQuery_on_result(
                Begin("GetPollResultsQuery::on_result",
                      [poll_id |-> query.poll_id, generation |-> query.generation,
                       result |-> result]),
                query, result))

OnGetPollResults ==
  /\ Running
  /\ \E m \in mailbox, percent \in Percents :
       /\ m.handler = "on_get_poll_results"
       /\ Set(on_get_poll_results(
                [Begin("on_get_poll_results",
                       [poll_id |-> m.poll_id, generation |-> m.generation,
                        result |-> m.result])
                   EXCEPT !.mailbox = @ \ {m}],
                m.poll_id, m.generation, m.result, percent))

StateCallbackOnOnline ==
  /\ Running
  /\ Set(StateCallback_on_online(Begin("StateCallback::on_online",
                                       [is_online |-> ~is_online]),
                                 ~is_online))

OnOnline ==
  /\ Running
  /\ \E m \in mailbox, timeouts \in [DOMAIN poll_messages_ -> OnlineTimeouts] :
       /\ m.handler = "on_online"
       /\ Set(on_online([Begin("on_online", <<>>) EXCEPT !.mailbox = @ \ {m}],
                        timeouts))

\* Registrations, closes, server merges, expiring timeouts and the fetches they
\* start, for a user or a bot account that stays online, durability off.
NextTimer ==
  \/ OnGetPoll
  \/ RegisterPoll
  \/ UnregisterPoll
  \/ StopPoll
  \/ UpdatePollTimeoutExpires
  \/ OnUpdatePollTimeout
  \/ GetPollResultsQueryOnResult
  \/ OnGetPollResults
InitTimer == InitWith(BOOLEAN, {FALSE})
SpecTimer == InitTimer /\ [][NextTimer]_vars

\* The ids of two polls the server knows.
TwoServerPollIds == {1, 2}

\* on_get_poll with the metadata of one of the two polls, open, without results.
OnGetPollOfTwo ==
  /\ Running
  /\ \E poll_id \in TwoServerPollIds, percent \in Percents :
       Set(on_get_poll(Begin("on_get_poll", [poll_id |-> poll_id]),
                       poll_id, PollServer(poll_id, FALSE), NoResults, percent))

\* Merges for two polls, registrations and the account going offline and
\* online, for a user or a bot account.
NextOnline ==
  \/ OnGetPoll
  \/ OnGetPollOfTwo
  \/ RegisterPoll
  \/ UnregisterPoll
  \/ StateCallbackOnOnline
  \/ OnOnline
SpecOnline == InitTimer /\ [][NextOnline]_vars

\* Votes and closes on two server polls, shutdown and restart.
NextTwo ==
  \/ OnGetPollOfTwo
  \/ SetPollAnswer
  \/ SetPollAnswerActorSend
  \/ SetPollAnswerActorOnResult
  \/ OnSetPollAnswer
  \/ StopPoll
  \/ Close
  \/ Restart
SpecTwo == Init /\ [][NextTwo]_vars

HavePollForce ==
  /\ Running
  /\ \E poll_id \in TwoServerPollIds :
       Set(have_poll_force(Begin("have_poll_force", [poll_id |-> poll_id]),
                           poll_id))

\* Lookups, server merges and closes of polls, shutdown and restart.
NextLookup ==
  \/ HavePollForce
  \/ OnGetPoll
  \/ StopPoll
  \/ Close
  \/ Restart
SpecLookup == Init /\ [][NextLookup]_vars

\* Drafts beside the server polls, votes and closes on any of them, server
\* merges, shutdown and restart with durability on or off.
NextDurability ==
  \/ CreatePoll
  \/ OnGetPoll
  \/ SetPollAnswerAnyId
  \/ StopPoll
  \/ Close
  \/ Restart
SpecDurability == Init /\ [][NextDurability]_vars

\* Votes and closes on displayed and undisplayed server polls, with the votes'
\* requests and responses.
NextClose ==
  \/ OnGetPoll
  \/ RegisterPoll
  \/ SetPollAnswer
  \/ SetPollAnswerActorSend
  \/ SetPollAnswerActorOnResult
  \/ OnSetPollAnswer
  \/ StopPoll
SpecClose == Init /\ [][NextClose]_vars

\* Votes and server merges in a process that does not shut down.
NextVotes ==
  \/ OnGetPoll
  \/ SetPollAnswer
  \/ SetPollAnswerActorSend
  \/ SetPollAnswerActorOnResult
  \/ OnSetPollAnswer

\* The scheduler runs every posted SetPollAnswerActor::send and every posted
\* on_set_poll_answer, and every request that was sent gets its response.
FairVotes ==
  /\ WF_vars(SetPollAnswerActorSend)
  /\ WF_vars(SetPollAnswerActorOnResult)
  /\ WF_vars(OnSetPollAnswer)
SpecVotes == Init /\ [][NextVotes]_vars /\ FairVotes

\* on_get_poll with any of these results, with or without the poll's metadata;
\* the handler's record keeps the whole update.
OnGetPollUpdate ==
  /\ Running
  /\ \E poll_id \in ServerPollIds, closed \in BOOLEAN, percent \in Percents,
        poll_results \in PollResultsInputs :
       \E poll_server \in {NoPollServer, PollServer(poll_id, closed)} :
         Set(on_get_poll(
               Begin("on_get_poll",
                     [poll_id |-> poll_id, poll_server |-> poll_server,
                      poll_results |-> poll_results, percent |-> percent]),
               poll_id, poll_server, poll_results, percent))

\* Server merges of every kind into a poll that is displayed or not, with
\* durability on or off.
NextReconcile ==
  \/ OnGetPollUpdate
  \/ RegisterPoll
SpecReconcile == Init /\ [][NextReconcile]_vars

\* -------------------------------------------------------------- properties
\* What a set_poll_answer call with these inputs is in the state it is made in.
CallOptions(args) == get_options(polls_[args.poll_id], args.option_ids)

IsAccepted(args) ==
  /\ Len(args.option_ids) <= 1
  /\ ~is_local_poll_id(args.poll_id)
  /\ args.poll_id \in DOMAIN polls_
  /\ ~polls_[args.poll_id].is_closed
  /\ CallOptions(args).ok

HasWaiters(poll_id) ==
  /\ poll_id \in DOMAIN pending_answers_
  /\ pending_answers_[poll_id].promises_ # <<>>

ResolvedWith(l, promise, result) ==
  promise # 0 => [promise |-> promise, result |-> result] \in l.resolved

\* The step is an accepted set_poll_answer on poll_id that meets a pending record
\* with waiters and other options.
IsSupersedingCall(poll_id) ==
  /\ last'.op = "set_poll_answer"
  /\ last'.args.poll_id = poll_id
  /\ IsAccepted(last'.args)
  /\ HasWaiters(poll_id)
  /\ pending_answers_[poll_id].options_ # CallOptions(last'.args).options

SupersededOutcome(poll_id) ==
  LET old == pending_answers_[poll_id]
      args == last'.args
  IN /\ \A i \in 1..Len(old.promises_) : ResolvedWith(last', old.promises_[i], "ok")
     /\ \A q \in net_queries' :
          (q.kind = "sendVote" /\ q.poll_id = poll_id
             /\ q.generation = old.generation_) => q.cancelled
     /\ poll_id \in DOMAIN pending_answers_'
     /\ pending_answers_'[poll_id].options_ = CallOptions(args).options
     /\ pending_answers_'[poll_id].promises_ = <<args.promise>>
     /\ pending_answers_'[poll_id].generation_ > old.generation_

\* C1: an accepted set_poll_answer that meets an earlier submission with other
\* options still awaiting its response resolves every waiter of the earlier one
\* successfully in that step, cancels the earlier request, and leaves one pending
\* record holding the new options, only the new promise and a greater generation.
C1_Superseded ==
  [][\A poll_id \in ServerPollIds :
       IsSupersedingCall(poll_id) => SupersededOutcome(poll_id)]_vars

\* The step is on_set_poll_answer handling a response.
IsResponse(poll_id) ==
  /\ last'.op = "on_set_poll_answer"
  /\ last'.args.poll_id = poll_id

\* C2: a response for a poll without pending record, or with a generation other
\* than the record's, changes nothing: registry, pending records, durable log and
\* generation counter stay as they are and no promise is resolved.
C2_StaleResponseIsNoOp ==
  [][\A poll_id \in ServerPollIds :
       (/\ IsResponse(poll_id)
        /\ \/ poll_id \notin DOMAIN pending_answers_
           \/ pending_answers_[poll_id].generation_ # last'.args.generation)
       => /\ polls_' = polls_
          /\ pending_answers_' = pending_answers_
          /\ binlog' = binlog
          /\ current_generation_' = current_generation_
          /\ promises' = promises
          /\ last'.resolved = {}
          /\ check_failed' = check_failed]_vars

\* A response of an older generation has met the record of a newer one.
C2_StaleResponseDropped ==
  /\ last.op = "on_set_poll_answer"
  /\ last.args.poll_id \in DOMAIN pending_answers_
  /\ pending_answers_[last.args.poll_id].generation_ > last.args.generation
  /\ pending_answers_[last.args.poll_id].promises_ # <<>>

\* C3: a response of the record's generation that is not a failure during
\* shutdown erases the record's log entry if it has one, resolves every waiter of
\* the record with the response's outcome, and removes the record.
C3_MatchingResponseSettles ==
  [][\A poll_id \in ServerPollIds :
       (/\ IsResponse(poll_id)
        /\ poll_id \in DOMAIN pending_answers_
        /\ pending_answers_[poll_id].generation_ = last'.args.generation
        /\ ~(close_flag /\ last'.args.result # "ok"))
       => LET old == pending_answers_[poll_id] IN
          /\ old.logevent_id_ # 0 => \A e \in binlog' : e.id # old.logevent_id_
          /\ last'.resolved =
               {[promise |-> w, result |-> last'.args.result] :
                  w \in Range(old.promises_) \ {0}}
          /\ promises' = promises \ Range(old.promises_)
          /\ poll_id \notin DOMAIN pending_answers_']_vars

\* Two waiters of one logged submission have both received the server's error.
C3_WaitersShareTheError ==
  /\ last.op = "on_set_poll_answer"
  /\ use_message_db
  /\ last.resolved = {[promise |-> 1, result |-> "SERVER_ERROR"],
                      [promise |-> 2, result |-> "SERVER_ERROR"]}
  /\ pending_answers_ = EmptyMap
  /\ binlog = {}

\* The step is an accepted set_poll_answer on poll_id whose options are those of
\* a pending record with waiters.
IsPiggybackCall(poll_id) ==
  /\ last'.op = "set_poll_answer"
  /\ last'.args.poll_id = poll_id
  /\ IsAccepted(last'.args)
  /\ HasWaiters(poll_id)
  /\ pending_answers_[poll_id].options_ = CallOptions(last'.args).options

\* C4: an accepted set_poll_answer with the options of a pending record that has
\* waiters appends the new promise to the record's waiters and does nothing
\* else: no request is dispatched or cancelled, no generation changes, the log
\* is not written and no waiter is resolved.
C4_PiggybackOnlyAppends ==
  [][\A poll_id \in ServerPollIds :
       IsPiggybackCall(poll_id)
       => /\ pending_answers_' =
               [pending_answers_ EXCEPT ![poll_id].promises_ =
                                          Append(@, last'.args.promise)]
          /\ net_actors' = net_actors
          /\ net_queries' = net_queries
          /\ mailbox' = mailbox
          /\ current_generation_' = current_generation_
          /\ binlog' = binlog
          /\ next_logevent_id' = next_logevent_id
          /\ polls_' = polls_
          /\ last'.resolved = {}
          /\ last'.notified = {}
          /\ promises' = promises \cup {last'.args.promise}
          /\ check_failed' = check_failed]_vars

\* A second caller waits on the request of the first.
C4_SecondWaiterJoined ==
  /\ last.op = "set_poll_answer"
  /\ last.args.poll_id \in DOMAIN pending_answers_
  /\ pending_answers_[last.args.poll_id].promises_ = <<1, 2>>
  /\ pending_answers_[last.args.poll_id].generation_ = 1
  /\ current_generation_ = 1

\* The inputs of a set_poll_answer call are among those the validation rejects:
\* several option indices, a local poll id, a closed poll, or an index outside
\* the poll's options.
IsRejected(args) ==
  \/ Len(args.option_ids) > 1
  \/ is_local_poll_id(args.poll_id)
  \/ /\ args.poll_id \in DOMAIN polls_
     /\ \/ polls_[args.poll_id].is_closed
        \/ \E i \in 1..Len(args.option_ids) :
             \/ args.option_ids[i] < 0
             \/ args.option_ids[i] >= Len(polls_[args.poll_id].options)

ValidationErrors ==
  {"Can't choose more than 1 option", "Poll can't be answered",
   "Can't answer closed poll", "Invalid option id specified"}

\* C5: set_poll_answer with several option indices, a local poll id, a closed
\* poll or an option index out of range (negative ones included) fails its
\* promise with an error and changes nothing else; and no vote request ever
\* carries the id of a poll made by create_poll.
C5_RejectedCallHasNoEffect ==
  [][/\ (last'.op = "set_poll_answer" /\ IsRejected(last'.args))
        => /\ \E error \in ValidationErrors :
                last'.resolved = {[promise |-> last'.args.promise, result |-> error]}
           /\ promises' = promises
           /\ net_actors' = net_actors
           /\ net_queries' = net_queries
           /\ mailbox' = mailbox
           /\ pending_answers_' = pending_answers_
           /\ binlog' = binlog
           /\ next_logevent_id' = next_logevent_id
           /\ current_generation_' = current_generation_
           /\ polls_' = polls_
           /\ poll_messages_' = poll_messages_
           /\ database' = database
           /\ last'.notified = {}
           /\ last'.saved = {}
           /\ check_failed' = check_failed
     /\ \A a \in net_actors' \cup net_queries' :
          a.kind \in {"SetPollAnswerActor", "sendVote"} => ~is_local_poll_id(a.poll_id)
    ]_vars

\* A vote with index -1 on an open server poll has been refused.
C5_NegativeIndexRejected ==
  /\ last.op = "set_poll_answer"
  /\ last.args.option_ids = <<-1>>
  /\ last.args.poll_id \in DOMAIN polls_
  /\ ~is_local_poll_id(last.args.poll_id)
  /\ ~polls_[last.args.poll_id].is_closed
  /\ Len(polls_[last.args.poll_id].options) = 2
  /\ last.resolved = {[promise |-> last.args.promise,
                       result |-> "Invalid option id specified"]}

\* The vote requests posted for a poll under a generation.
VoteActors(actors, poll_id, generation) ==
  {a \in actors : /\ a.kind = "SetPollAnswerActor"
                  /\ a.poll_id = poll_id
                  /\ a.generation = generation}

\* What the replay of one submit-answer entry leaves behind.
Replayed(entry) ==
  /\ entry.poll_id \in DOMAIN pending_answers_'
  /\ LET record == pending_answers_'[entry.poll_id] IN
     /\ record.logevent_id_ = entry.id
     /\ record.options_ = entry.options
     /\ record.promises_ = <<0>>
     /\ record.generation_ \in 1..current_generation_'
     /\ record.generation_ \notin
          {pending_answers_'[p].generation_ :
             p \in (DOMAIN pending_answers_') \ {entry.poll_id}}
     /\ \E a \in VoteActors(net_actors', entry.poll_id, record.generation_) :
          /\ a.full_message_id = entry.full_message_id
          /\ a.options = entry.options

\* The log after the entry with this id has been rewritten with these options.
Rewritten(entries, logevent_id, options) ==
  {IF e.id = logevent_id THEN [e EXCEPT !.options = options] ELSE e : e \in entries}

\* C6: with durability, startup replays each submit-answer entry of the log,
\* also without a local record of the poll, as a vote request with the entry's
\* options and message under a newly allocated generation, keeps the entry's id
\* in the pending record and adds no entry; a later superseding submission
\* rewrites the entry of that id.
C6_ReplayReusesLogEntry ==
  [][/\ (last'.op = "on_binlog_events" /\ last'.args.durable)
        => /\ binlog' = binlog
           /\ polls_' = EmptyMap
           /\ ~check_failed'
           /\ \A entry \in binlog : entry.type = "SetPollAnswer" => Replayed(entry)
     /\ \A poll_id \in ServerPollIds :
          (/\ IsSupersedingCall(poll_id)
           /\ use_message_db
           /\ pending_answers_[poll_id].logevent_id_ # 0)
          => /\ binlog' = Rewritten(binlog, pending_answers_[poll_id].logevent_id_,
                                    CallOptions(last'.args).options)
             /\ \E e \in binlog : e.id = pending_answers_[poll_id].logevent_id_
             /\ pending_answers_'[poll_id].logevent_id_ =
                  pending_answers_[poll_id].logevent_id_
    ]_vars

\* After a restart the replayed submission (waiter: the empty promise) has been
\* superseded by a caller's vote, and the log holds the one entry, rewritten.
C6_ReplayedThenSuperseded ==
  /\ restarts = 1
  /\ use_message_db
  /\ ~check_failed
  /\ last.op = "set_poll_answer"
  /\ last.resolved = {}
  /\ 1 \in DOMAIN pending_answers_
  /\ pending_answers_[1].promises_ = <<last.args.promise>>
  /\ pending_answers_[1].generation_ = 2
  /\ pending_answers_[1].logevent_id_ = 1
  /\ binlog = {[id |-> 1, type |-> "SetPollAnswer", poll_id |-> 1,
                full_message_id |-> last.args.full_message_id,
                options |-> pending_answers_[1].options_]}

\* C7: a failed response handled while the process shuts down does nothing: no
\* waiter hears of it, the pending record stays and its log entry is kept; and a
\* durable startup finds the entry of every record that was pending with a log
\* entry and posts the vote again.
C7_ShutdownFailureSwallowed ==
  [][/\ \A poll_id \in ServerPollIds :
          (IsResponse(poll_id) /\ close_flag /\ last'.args.result # "ok")
          => /\ last'.resolved = {}
             /\ promises' = promises
             /\ pending_answers_' = pending_answers_
             /\ binlog' = binlog
             /\ polls_' = polls_
             /\ net_queries' = net_queries
             /\ net_actors' = net_actors
             /\ check_failed' = check_failed
     /\ (last'.op = "on_binlog_events" /\ last'.args.durable)
        => \A poll_id \in DOMAIN pending_answers_ :
             pending_answers_[poll_id].logevent_id_ # 0
             => \E e \in binlog :
                  /\ e.id = pending_answers_[poll_id].logevent_id_
                  /\ e.type = "SetPollAnswer"
                  /\ e.poll_id = poll_id
                  /\ \E a \in net_actors' :
                       /\ a.kind = "SetPollAnswerActor"
                       /\ a.poll_id = poll_id
                       /\ a.full_message_id = e.full_message_id
                       /\ a.options = e.options
    ]_vars

\* During shutdown the server's error for the pending generation has been
\* handled: the caller still waits and the log entry is still there.
C7_FailureSwallowedEntryKept ==
  /\ last.op = "on_set_poll_answer"
  /\ last.args.result = "SERVER_ERROR"
  /\ close_flag
  /\ use_message_db
  /\ last.args.poll_id \in DOMAIN pending_answers_
  /\ pending_answers_[last.args.poll_id].generation_ = last.args.generation
  /\ pending_answers_[last.args.poll_id].promises_ = <<1>>
  /\ 1 \in promises
  /\ \E e \in binlog : e.id = pending_answers_[last.args.poll_id].logevent_id_

\* The submit-answer entries the log holds for a poll.
AnswerEntries(poll_id) ==
  {e \in binlog : e.type = "SetPollAnswer" /\ e.poll_id = poll_id}

\* One entry for a pending record, with the record's id and options; none
\* without a record.
LogMatchesRecord(poll_id) ==
  IF poll_id \in DOMAIN pending_answers_
  THEN LET record == pending_answers_[poll_id] IN
       /\ record.logevent_id_ # 0
       /\ AnswerEntries(poll_id) =
            {[id |-> record.logevent_id_, type |-> "SetPollAnswer",
              poll_id |-> poll_id, full_message_id |-> e.full_message_id,
              options |-> record.options_] : e \in AnswerEntries(poll_id)}
       /\ Cardinality(AnswerEntries(poll_id)) = 1
  ELSE AnswerEntries(poll_id) = {}

\* C8: while a process with durability runs, the log holds exactly one
\* submit-answer entry for every poll with a pending answer record and none for
\* any other poll; the entry's id is the record's log-entry id, which is not
\* zero, and its options are the record's options.
C8_OneLogEntryPerPendingAnswer ==
  (Running /\ use_message_db)
    => \A poll_id \in ServerPollIds : LogMatchesRecord(poll_id)

\* A durable process has superseded a logged submission: the first caller was
\* told ok and the entry of the same id now holds the second caller's option.
C8_SupersededEntryRewritten ==
  /\ Running
  /\ use_message_db
  /\ last.op = "set_poll_answer"
  /\ last.resolved = {[promise |-> 1, result |-> "ok"]}
  /\ 1 \in DOMAIN pending_answers_
  /\ pending_answers_[1].promises_ = <<2>>
  /\ pending_answers_[1].logevent_id_ = 1
  /\ pending_answers_[1].options_ # <<>>
  /\ AnswerEntries(1) = {[id |-> 1, type |-> "SetPollAnswer", poll_id |-> 1,
                          full_message_id |-> last.args.full_message_id,
                          options |-> pending_answers_[1].options_]}

\* The vote requests of a poll that are with the network and not cancelled, and
\* those posted to an actor that has not sent yet.
OutstandingVotes(poll_id) ==
  {q \in net_queries : q.kind = "sendVote" /\ q.poll_id = poll_id /\ ~q.cancelled}
  \cup {a \in net_actors : a.kind = "SetPollAnswerActor" /\ a.poll_id = poll_id}

\* The close requests of a poll that are with the network.
OutstandingCloses(poll_id) ==
  {q \in net_queries : q.kind = "editMessage" /\ q.poll_id = poll_id}

\* C9 (vote requests): in every state each poll has at most one vote request
\* that is posted or in flight and not cancelled, whatever the interleaving of
\* votes, closes, server merges, replay and responses.
C9_OneVoteRequestPerPoll ==
  \A poll_id \in ServerPollIds : Cardinality(OutstandingVotes(poll_id)) <= 1

\* The superseded vote request, cancelled, is still with the network next to
\* the request that replaced it.
C9_OldVoteCancelledNewInFlight ==
  \E old, new \in net_queries :
    /\ old.kind = "sendVote" /\ new.kind = "sendVote"
    /\ old.poll_id = new.poll_id
    /\ old.cancelled /\ ~new.cancelled
    /\ old.generation < new.generation

\* C9 as stated: in every state each poll has at most one vote request that is
\* not cancelled and at most one close request outstanding.
C9_OneVoteAndOneCloseRequestPerPoll ==
  \A poll_id \in ServerPollIds :
    /\ Cardinality(OutstandingVotes(poll_id)) <= 1
    /\ Cardinality(OutstandingCloses(poll_id)) <= 1

AccessError == "Can't access the chat"

\* The step is an actor's send that finds the chat inaccessible.
VoteSendDenied ==
  last'.op = "SetPollAnswerActor::send" /\ ~last'.args.have_access
CloseSendDenied ==
  last'.op = "StopPollActor::send" /\ ~last'.args.have_access

\* The actor whose send the step runs.
SendingActor == CHOOSE a \in net_actors : a \notin net_actors'

\* C10 (as the code has it): a vote or close refused for lack of access sends
\* nothing to the network.  Without durability the log stays empty.  With
\* durability the operation's log entry has been written before the access
\* check; for a close the same step erases it and gives the caller the access
\* error; for a vote the error travels to on_set_poll_answer, which, outside
\* shutdown, gives it to every waiter and erases the entry.
C10_AccessErrorReportedEntryErased ==
  [][/\ VoteSendDenied
        => LET poll_id == last'.args.poll_id
               generation == last'.args.generation
           IN /\ [handler |-> "on_set_poll_answer", poll_id |-> poll_id,
                  generation |-> generation, result |-> AccessError] \in mailbox'
              /\ net_queries' = net_queries
              /\ binlog' = binlog
              /\ poll_id \in DOMAIN pending_answers_
              /\ pending_answers_[poll_id].generation_ = generation
              /\ IF use_message_db
                 THEN \E e \in binlog : /\ e.id = pending_answers_[poll_id].logevent_id_
                                        /\ e.type = "SetPollAnswer"
                 ELSE binlog = {}
     /\ \A poll_id \in ServerPollIds :
          (/\ IsResponse(poll_id)
           /\ last'.args.result = AccessError
           /\ poll_id \in DOMAIN pending_answers_
           /\ pending_answers_[poll_id].generation_ = last'.args.generation
           /\ ~close_flag)
          => /\ \A i \in 1..Len(pending_answers_[poll_id].promises_) :
                  ResolvedWith(last', pending_answers_[poll_id].promises_[i],
                               AccessError)
             /\ \A e \in binlog' : ~(e.type = "SetPollAnswer" /\ e.poll_id = poll_id)
     /\ CloseSendDenied
        => /\ ResolvedWith(last', SendingActor.promise, AccessError)
           /\ net_queries' = net_queries
           /\ binlog' = {e \in binlog : e.id # SendingActor.logevent_id}
           /\ IF use_message_db
              THEN \E e \in binlog : /\ e.id = SendingActor.logevent_id
                                     /\ e.type = "StopPoll"
              ELSE binlog = {}
    ]_vars

\* A durable process has delivered the access error of a vote: the caller has
\* it, and the entry written for the vote (id 1) is gone from the log.
C10_VoteAccessErrorDelivered ==
  /\ last.op = "on_set_poll_answer"
  /\ last.resolved = {[promise |-> 1, result |-> AccessError]}
  /\ use_message_db
  /\ next_logevent_id = 2
  /\ binlog = {}
  /\ pending_answers_ = EmptyMap

\* C10 as stated: when a vote or a close is refused for lack of access, no log
\* entry has been written for the operation, and the refused close gives its
\* caller the access error.
C10_AccessErrorWritesNoLogEntry ==
  [][/\ VoteSendDenied
        => \A e \in binlog :
             ~(e.type = "SetPollAnswer" /\ e.poll_id = last'.args.poll_id)
     /\ CloseSendDenied
        => /\ \A e \in binlog :
                ~(e.type = "StopPoll" /\ e.poll_id = last'.args.poll_id)
           /\ ResolvedWith(last', SendingActor.promise, AccessError)
    ]_vars

\* C11: stop_poll on a server poll that is already closed resolves its promise
\* with success in that step and does nothing else: no close request, no log
\* entry, no generation, no notification, no write of the poll.
C11_StopClosedPollOnlyResolves ==
  [][(/\ last'.op = "stop_poll"
      /\ ~is_local_poll_id(last'.args.poll_id)
      /\ last'.args.poll_id \in DOMAIN polls_
      /\ polls_[last'.args.poll_id].is_closed)
     => /\ last'.resolved = {[promise |-> last'.args.promise, result |-> "ok"]}
        /\ promises' = promises
        /\ net_actors' = net_actors
        /\ net_queries' = net_queries
        /\ binlog' = binlog
        /\ next_logevent_id' = next_logevent_id
        /\ current_generation_' = current_generation_
        /\ polls_' = polls_
        /\ database' = database
        /\ last'.notified = {}
        /\ last'.saved = {}
        /\ check_failed' = check_failed]_vars

\* The second stop_poll of a poll whose close request is still outstanding has
\* answered ok without another request.
C11_ClosedPollStoppedAgain ==
  /\ last.op = "stop_poll"
  /\ last.args.promise = 2
  /\ last.resolved = {[promise |-> 2, result |-> "ok"]}
  /\ polls_[last.args.poll_id].is_closed
  /\ 1 \in promises
  /\ Cardinality(net_actors \cup net_queries) = 1

\* What is asked of the percentages get_vote_percentage returned.
IsPercentCall == last.op = "get_vote_percentage"

PercentagesInRange ==
  /\ ~check_failed
  /\ Len(last.result) = Len(last.args.voter_counts)
  /\ \A i \in 1..Len(last.result) : 0 <= last.result[i] /\ last.result[i] <= 100
  /\ sum_of(last.result) <= 100

\* C12: for non-negative counts and a total of at least their sum
\* get_vote_percentage returns as many values as counts, each in 0..100, summing
\* to at most 100, and equal for equal counts.
C12_PercentagesOfConsistentTotal ==
  (/\ IsPercentCall
   /\ last.args.total_voter_count >= sum_of(last.args.voter_counts))
  => /\ PercentagesInRange
     /\ \A i, j \in 1..Len(last.result) :
          last.args.voter_counts[i] = last.args.voter_counts[j]
          => last.result[i] = last.result[j]

\* Counts 1, 3, 4 of 8 voters: 12.5 % and 37.5 % lack the same to the next
\* percent and one percent is left; here the second option got it.
C12_TieRoundedUpEitherWay ==
  /\ IsPercentCall
  /\ last.args.voter_counts = <<1, 3, 4>>
  /\ last.args.total_voter_count = 8
  /\ last.result = <<12, 38, 50>>

\* The call takes the fallback branch: a positive total below the sum.
IsFallbackCall ==
  /\ IsPercentCall
  /\ 0 < last.args.total_voter_count
  /\ last.args.total_voter_count < sum_of(last.args.voter_counts)

\* C17 (as the code has it): for non-negative counts and a positive total below
\* their sum get_vote_percentage returns as many values as counts, each the
\* share of the count in the total rounded to the nearest percent, halves up;
\* the value is in 0..100 when the count is at most the total.
C17_FallbackRoundsToNearest ==
  IsFallbackCall
  => /\ ~check_failed
     /\ Len(last.result) = Len(last.args.voter_counts)
     /\ \A i \in 1..Len(last.result) :
          LET twice == 2 * last.args.total_voter_count * last.result[i]
              share == 200 * last.args.voter_counts[i]
          IN /\ share - last.args.total_voter_count < twice
             /\ twice <= share + last.args.total_voter_count
             /\ last.args.voter_counts[i] <= last.args.total_voter_count
                => (0 <= last.result[i] /\ last.result[i] <= 100)

\* Two options with one vote each and a reported total of one voter: both get
\* 100 %.
C17_BothOptionsAtHundred ==
  /\ IsPercentCall
  /\ last.args.voter_counts = <<1, 1>>
  /\ last.args.total_voter_count = 1
  /\ last.result = <<100, 100>>

\* C17 as stated: for non-negative counts and any total, here any total that
\* is not negative, get_vote_percentage returns as many values as counts, each
\* in 0..100, summing to at most 100.
C17_PercentagesOfAnyTotal ==
  (IsPercentCall /\ last.args.total_voter_count >= 0) => PercentagesInRange

\* C13 as stated: every option's voter_count is at most the poll's
\* total_voter_count and every chosen option has at least one voter.
C13_CountsWithinTotalChosenCounted ==
  \A poll_id \in DOMAIN polls_ :
    \A i \in 1..Len(polls_[poll_id].options) :
      LET option == polls_[poll_id].options[i] IN
      /\ option.voter_count <= polls_[poll_id].total_voter_count
      /\ option.is_chosen => option.voter_count >= 1

\* C16 as stated: get_poll_object never fails an assertion.
C16_ReadModelNeverAborts ==
  [][last'.op = "get_poll_object" => ~check_failed']_vars

\* C14 as stated: a poll whose refresh timeout is armed has a display
\* registration, is not closed, is not local, and the account is not a bot.
C14_ArmedOnlyWhileDisplayedAndOpen ==
  \A poll_id \in DOMAIN update_poll_timeout_ :
    /\ poll_id \in DOMAIN poll_messages_
    /\ poll_id \in DOMAIN polls_ /\ ~polls_[poll_id].is_closed
    /\ ~is_local_poll_id(poll_id)
    /\ ~is_bot

\* The fetches of poll results the step starts.
FetchesStarted == {q \in net_queries' \ net_queries : q.kind = "getPollResults"}

\* C14, amended: an armed poll is a known server poll of an account that is not a
\* bot (it may be closed or have no display registration), and an expired
\* timeout starts a fetch only for a poll that has a display registration and is
\* not closed.
C14_ArmedKnownFetchedOnlyWhileDisplayedAndOpen ==
  [][/\ \A poll_id \in DOMAIN update_poll_timeout_' :
          /\ poll_id \in DOMAIN polls_'
          /\ ~is_local_poll_id(poll_id)
          /\ ~is_bot'
     /\ \A q \in FetchesStarted :
          /\ last'.op = "on_update_poll_timeout"
          /\ q.poll_id \in DOMAIN poll_messages_
          /\ q.full_message_id \in poll_messages_[q.poll_id]
          /\ ~polls_[q.poll_id].is_closed
          /\ ~is_local_poll_id(q.poll_id)
          /\ ~is_bot]_vars

\* C14 witness: an expired timeout has started a fetch for a displayed open poll
\* while the poll's timeout is armed again.
C14_FetchStartedWhileArmed ==
  /\ last.op = "on_update_poll_timeout"
  /\ \E q \in net_queries :
       /\ q.kind = "getPollResults"
       /\ q.poll_id \in DOMAIN update_poll_timeout_
       /\ q.poll_id \in DOMAIN poll_messages_

\* The step is a set_poll_answer that passes the validation and does not join a
\* pending submission with the same options.
IsNewSubmission ==
  /\ last'.op = "set_poll_answer"
  /\ IsAccepted(last'.args)
  /\ ~(/\ HasWaiters(last'.args.poll_id)
       /\ pending_answers_[last'.args.poll_id].options_
            = CallOptions(last'.args).options)

\* The step is a stop_poll of a known server poll that is not closed.
IsCloseOfOpenPoll ==
  /\ last'.op = "stop_poll"
  /\ ~is_local_poll_id(last'.args.poll_id)
  /\ last'.args.poll_id \in DOMAIN polls_
  /\ ~polls_[last'.args.poll_id].is_closed

\* The submit-answer entries a new process replays.
SubmissionsToReplay == {e \in binlog : e.type = "SetPollAnswer"}

\* C15: within a process the generation counter grows by one on every new (not
\* joined) accepted vote submission and on every stop_poll of an open server
\* poll, and is unchanged by every other handler that completes; a new process
\* counts one for each submission it replays; a pending record's generation is
\* at most the counter, and the records of different polls differ in it.
C15_GenerationCountsSubmissionsAndCloses ==
  [][~check_failed'
     => /\ last'.op # "on_binlog_events"
           => current_generation_' =
                current_generation_
                  + (IF IsNewSubmission \/ IsCloseOfOpenPoll THEN 1 ELSE 0)
        /\ last'.op = "on_binlog_events"
           => current_generation_' =
                (IF use_message_db' THEN Cardinality(SubmissionsToReplay) ELSE 0)
        /\ \A p \in DOMAIN pending_answers_' :
             /\ pending_answers_'[p].generation_ <= current_generation_'
             /\ \A q \in (DOMAIN pending_answers_') \ {p} :
                  pending_answers_'[p].generation_ # pending_answers_'[q].generation_]_vars

\* C15 witness: a new process has replayed the submissions of two polls; the
\* counter stands at two and the two records carry different generations.
C15_TwoSubmissionsReplayed ==
  /\ last.op = "on_binlog_events"
  /\ current_generation_ = 2
  /\ TwoServerPollIds \subseteq DOMAIN pending_answers_
  /\ pending_answers_[1].generation_ # pending_answers_[2].generation_

\* C18: a handler reads the key-value store for a poll id only with durability
\* on and only if the id is neither in the registry nor among the ids already
\* read by this process, and the id is among them afterwards; within a process
\* the ids read and the registry's keys are never forgotten; so each id is read
\* at most once per process, and never without durability.
C18_StorageReadOncePerPoll ==
  [][/\ \A poll_id \in last'.db_reads :
          /\ use_message_db'
          /\ last'.op # "on_binlog_events"
          /\ poll_id \notin loaded_from_database_polls_
          /\ poll_id \notin DOMAIN polls_
          /\ poll_id \in loaded_from_database_polls_'
     /\ last'.op # "on_binlog_events"
          => /\ loaded_from_database_polls_ \subseteq loaded_from_database_polls_'
             /\ (DOMAIN polls_) \subseteq DOMAIN polls_'
             /\ use_message_db' = use_message_db
     /\ ~use_message_db' => last'.db_reads = {}]_vars

\* C18 witness: a lookup of an id that was read before and is absent answers
\* without reading.
C18_AbsentPollNotReadAgain ==
  /\ last.op = "have_poll_force"
  /\ use_message_db
  /\ last.args.poll_id \in loaded_from_database_polls_
  /\ last.args.poll_id \notin DOMAIN polls_
  /\ last.db_reads = {}
  /\ last.result = 0

\* The ids of the registry that lie in the local range.
LocalKeys(registry) == {poll_id \in DOMAIN registry : is_local_poll_id(poll_id)}

\* The id an on_get_poll call is about: its argument, or the id of the poll the
\* server sent if the argument is 0.
MergedPollId(args) ==
  IF args.poll_id = 0 /\ args.poll_server.present THEN args.poll_server.id
  ELSE args.poll_id

\* C19: the id create_poll returns is in the local range, below every local id
\* of the registry (the ids returned before, which are -1 down to the counter)
\* and not a key of the registry before the call; on_get_poll for an id of the
\* local range returns the invalid id 0 and leaves the registry as it is; every
\* other handler leaves the local polls' ids alone.
C19_DraftIdsFreshAndNeverMerged ==
  [][~check_failed'
     => /\ last'.op = "create_poll"
           => /\ is_local_poll_id(last'.result)
              /\ last'.result \notin DOMAIN polls_
              /\ \A poll_id \in LocalKeys(polls_) : last'.result < poll_id
              /\ DOMAIN polls_' = (DOMAIN polls_) \cup {last'.result}
              /\ \A poll_id \in DOMAIN polls_ : polls_'[poll_id] = polls_[poll_id]
        /\ (last'.op = "on_get_poll" /\ is_local_poll_id(MergedPollId(last'.args)))
           => /\ last'.result = 0
              /\ polls_' = polls_
        /\ last'.op # "create_poll" => LocalKeys(polls_') = LocalKeys(polls_)
        /\ LocalKeys(polls_') = current_local_poll_id_'..(-1)]_vars

\* C19 witness: a second draft has been created below the first, which is as it
\* was created.
C19_SecondDraftBelowFirst ==
  /\ last.op = "create_poll"
  /\ last.result = -2
  /\ LocalKeys(polls_) = {-2, -1}
  /\ polls_[-1].question = "Q" /\ ~polls_[-1].is_closed

\* C20: no handler saves a poll of the local range (the handlers that call
\* save_poll fail no CHECK, and the key-value store never holds a local id);
\* with durability off no handler writes the key-value store or adds or rewrites
\* a log entry, and the pending answers and the close requests carry log-entry
\* id 0.
C20_DraftsNeverSavedNothingWrittenWithoutDurability ==
  [][/\ \A poll_id \in last'.saved : ~is_local_poll_id(poll_id)
     /\ LocalKeys(database') = {}
     /\ last'.op \in {"stop_poll", "on_get_poll", "create_poll"} => ~check_failed'
     /\ ~use_message_db'
          => /\ database' = database
             /\ last'.saved = {}
             /\ binlog' \subseteq binlog
             /\ \A poll_id \in DOMAIN pending_answers_' :
                  pending_answers_'[poll_id].logevent_id_ = 0
             /\ \A a \in net_actors' : a.logevent_id = 0]_vars

\* C20 witness: without durability a draft and a server poll have been closed;
\* the close request of the server poll carries log-entry id 0 and nothing is
\* stored.
C20_ClosedWithoutDurability ==
  /\ ~use_message_db
  /\ last.op = "stop_poll"
  /\ \E poll_id \in LocalKeys(polls_) : polls_[poll_id].is_closed
  /\ \E a \in net_actors :
       /\ a.kind = "StopPollActor"
       /\ a.poll_id = last.args.poll_id
       /\ a.logevent_id = 0
  /\ polls_[last.args.poll_id].is_closed
  /\ database = EmptyMap
  /\ binlog = {}

\* The close requests and close log entries the step adds.
CloseActorsAdded == {a \in net_actors' \ net_actors : a.kind = "StopPollActor"}
CloseEntriesAdded == {e \in binlog' \ binlog : e.type = "StopPoll"}

\* C21: stop_poll of an open server poll adds one to the generation counter, sets
\* the poll's closed flag and nothing else of the poll, notifies the poll's
\* registered messages, saves the poll and appends one close entry (with
\* durability), and creates one close request carrying the caller's promise; the
\* pending answers, the requests in flight and the rest of the log stay as they
\* are; and a response with the generation of a pending record of a closed poll,
\* below the counter, still resolves the record's waiters and removes it.
C21_CloseLeavesPendingVoteAlone ==
  [][/\ IsCloseOfOpenPoll
        => LET poll_id == last'.args.poll_id IN
           /\ ~check_failed'
           /\ current_generation_' = current_generation_ + 1
           /\ polls_' = [polls_ EXCEPT ![poll_id].is_closed = TRUE]
           /\ last'.notified = (IF poll_id \in DOMAIN poll_messages_
                                THEN poll_messages_[poll_id] ELSE {})
           /\ last'.resolved = {}
           /\ pending_answers_' = pending_answers_
           /\ net_queries' = net_queries
           /\ mailbox' = mailbox
           /\ net_actors \subseteq net_actors'
           /\ net_actors' \ net_actors = CloseActorsAdded
           /\ Cardinality(CloseActorsAdded) = 1
           /\ \A a \in CloseActorsAdded :
                /\ a.poll_id = poll_id
                /\ a.full_message_id = last'.args.full_message_id
                /\ a.promise = last'.args.promise
                /\ use_message_db => \E e \in CloseEntriesAdded : a.logevent_id = e.id
                /\ ~use_message_db => a.logevent_id = 0
           /\ binlog \subseteq binlog'
           /\ binlog' \ binlog = CloseEntriesAdded
           /\ \A e \in CloseEntriesAdded : e.poll_id = poll_id
           /\ Cardinality(CloseEntriesAdded) = (IF use_message_db THEN 1 ELSE 0)
           /\ last'.saved = (IF use_message_db THEN {poll_id} ELSE {})
           /\ use_message_db => database' = Put(database, poll_id, polls_'[poll_id])
           /\ ~use_message_db => database' = database
     /\ \A poll_id \in ServerPollIds :
          (/\ IsResponse(poll_id)
           /\ poll_id \in DOMAIN pending_answers_
           /\ poll_id \in DOMAIN polls_ /\ polls_[poll_id].is_closed
           /\ pending_answers_[poll_id].generation_ = last'.args.generation
           /\ pending_answers_[poll_id].generation_ < current_generation_
           /\ ~(close_flag /\ last'.args.result # "ok"))
          => /\ poll_id \notin DOMAIN pending_answers_'
             /\ last'.resolved =
                  {[promise |-> w, result |-> last'.args.result] :
                     w \in Range(pending_answers_[poll_id].promises_) \ {0}}]_vars

\* C21 witness: the poll was closed while its vote was in flight, and the vote's
\* response, of a generation below the counter, has resolved the voter's promise.
C21_VoteSettledAfterClose ==
  /\ last.op = "on_set_poll_answer"
  /\ last.args.poll_id \in DOMAIN polls_
  /\ polls_[last.args.poll_id].is_closed
  /\ last.args.generation < current_generation_
  /\ last.resolved = {[promise |-> 1, result |-> "ok"]}
  /\ 2 \in promises
  /\ \E a \in net_actors \cup net_queries : a.promise = 2
  /\ pending_answers_ = EmptyMap
  /\ last.args.poll_id \in DOMAIN poll_messages_

\* The call takes the consistent branch: the counts are not all zero and the
\* total is their sum, given as such or clamped to it.
IsConsistentCall ==
  /\ IsPercentCall
  /\ sum_of(last.args.voter_counts) > 0
  /\ last.args.total_voter_count >= sum_of(last.args.voter_counts)

\* Of position i of the call: the share rounded down, and twice what it lacks to
\* the next percent, in voters.
FloorPercent(i) ==
  (100 * last.args.voter_counts[i]) \div sum_of(last.args.voter_counts)
TwiceGap(i) ==
  2 * ((FloorPercent(i) + 1) * sum_of(last.args.voter_counts)
         - 100 * last.args.voter_counts[i])

\* Position i lies exactly halfway between two whole percents.
IsHalfway(i) == TwiceGap(i) = sum_of(last.args.voter_counts)

\* C22, amended: in the consistent branch every percentage is the share rounded
\* down or that plus one; it is that plus one only if the gap is at most half the
\* total and, when the share is exactly halfway, only if the share rounded down
\* is below 50; equal counts get equal percentages.
C22_RoundedUpOnlyTowardsNearestHalvesTowardsFifty ==
  IsConsistentCall
  => /\ ~check_failed
     /\ Len(last.result) = Len(last.args.voter_counts)
     /\ \A i \in 1..Len(last.result) :
          /\ last.result[i] \in {FloorPercent(i), FloorPercent(i) + 1}
          /\ last.result[i] = FloorPercent(i) + 1
             => /\ TwiceGap(i) <= sum_of(last.args.voter_counts)
                /\ IsHalfway(i) => FloorPercent(i) < 50
          /\ \A j \in 1..Len(last.result) :
               last.args.voter_counts[i] = last.args.voter_counts[j]
               => last.result[i] = last.result[j]

\* C22 witness: 5 and 3 of 8 voters, 62.5 % and 37.5 %: the half above 50 is
\* rounded down and the half below 50 is rounded up.
C22_HalvesRoundedTowardsFifty ==
  /\ IsPercentCall
  /\ last.args.voter_counts = <<5, 3>>
  /\ last.args.total_voter_count = 8
  /\ last.result = <<62, 38>>

\* C22 as stated: a percentage is the share rounded down plus one only if the
\* gap is at most half the total, and never for a share exactly halfway.
C22_HalvesNeverRoundedUp ==
  IsConsistentCall
  => /\ ~check_failed
     /\ \A i \in 1..Len(last.result) :
          /\ last.result[i] \in {FloorPercent(i), FloorPercent(i) + 1}
          /\ last.result[i] = FloorPercent(i) + 1
             => /\ TwiceGap(i) <= sum_of(last.args.voter_counts)
                /\ ~IsHalfway(i)

\* C23 as stated: whenever the sum of a poll's option voter counts is not zero,
\* the poll's total_voter_count is at most that sum.
C23_TotalWithinSumOfCounts ==
  \A poll_id \in DOMAIN polls_ :
    sum_voter_counts(polls_[poll_id].options) # 0
    => polls_[poll_id].total_voter_count <= sum_voter_counts(polls_[poll_id].options)


\* The step is an on_get_poll for a poll the registry already holds.
IsMergeIntoKnownPoll ==
  /\ last'.op = "on_get_poll" /\ ~check_failed'
  /\ MergedPollId(last'.args) \in DOMAIN polls_
  /\ MergedPollId(last'.args) \in DOMAIN polls_'

\* Option i of the merged poll keeps its identifier and some entry of the
\* results names it.
HasResultEntry(i) ==
  \E k \in 1..Len(last'.args.poll_results.results) :
    last'.args.poll_results.results[k].option
      = polls_[MergedPollId(last'.args)].options[i].data

\* The options of the merged poll are at the same positions with the same
\* identifiers after the step.
OptionsKept ==
  LET poll_id == MergedPollId(last'.args) IN
  /\ Len(polls_'[poll_id].options) = Len(polls_[poll_id].options)
  /\ \A i \in 1..Len(polls_[poll_id].options) :
       polls_'[poll_id].options[i].data = polls_[poll_id].options[i].data

\* The frame of a merge, but for the total: minimal results without metadata
\* leave every chosen flag as it is, and an option no entry names keeps its
\* voter count and its chosen flag.
MergeFrame ==
  LET poll_id == MergedPollId(last'.args) IN
  /\ last'.args.poll_results.min /\ ~last'.args.poll_server.present
     => \A i \in 1..Len(polls_[poll_id].options) :
          polls_'[poll_id].options[i].is_chosen = polls_[poll_id].options[i].is_chosen
  /\ OptionsKept
     => \A i \in 1..Len(polls_[poll_id].options) :
          ~HasResultEntry(i)
          => /\ polls_'[poll_id].options[i].voter_count
                  = polls_[poll_id].options[i].voter_count
             /\ polls_'[poll_id].options[i].is_chosen
                  = polls_[poll_id].options[i].is_chosen

IsRepeatedUpdate ==
  /\ last.op = "on_get_poll" /\ last'.op = "on_get_poll"
  /\ ~check_failed /\ ~check_failed'
  /\ last'.args.poll_id = last.args.poll_id
  /\ last'.args.poll_server = last.args.poll_server
  /\ last'.args.poll_results = last.args.poll_results

\* C28 as stated: on_get_poll applied a second time to the same update leaves
\* the registry as the first application left it, notifies nobody and saves
\* nothing.
C28_SecondApplicationChangesNothing ==
  [][IsRepeatedUpdate
     => /\ polls_' = polls_
        /\ last'.notified = {}
        /\ last'.saved = {}]_vars


\* The step is on_get_poll_results for a response of this kind: "failure", "stale"
\* (a success whose generation differs from the counter) or "current".
IsFetchResponse(kind) ==
  /\ last'.op = "on_get_poll_results" /\ ~check_failed'
  /\ kind = IF last'.args.result # "ok" THEN "failure"
            ELSE IF last'.args.generation # current_generation_ THEN "stale"
            ELSE "current"

\* The poll of the response is open and the account is not a bot.
MayRearm == ~polls_[last'.args.poll_id].is_closed /\ ~is_bot

\* The polling intervals get_polling_timeout can return, in hundredths of a
\* second.
PollingIntervals == {(IF is_online THEN 60 ELSE 30 * 60) * percent : percent \in 70..100}

\* After the step the timeout of the response's poll is armed with an interval
\* of the set, and the other polls' timeouts are as before.
TimeoutSetWithin(intervals) ==
  /\ DOMAIN update_poll_timeout_' = DOMAIN update_poll_timeout_ \cup {last'.args.poll_id}
  /\ update_poll_timeout_'[last'.args.poll_id] \in intervals
  /\ \A poll_id \in DOMAIN update_poll_timeout_ \ {last'.args.poll_id} :
       update_poll_timeout_'[poll_id] = update_poll_timeout_[poll_id]

\* What on_get_poll_results does with a success: a stale one is not handed to
\* reconciliation and sets the timeout to 0 unless the poll is closed or the
\* account is a bot; a current one is handed on and leaves the timeouts alone;
\* the handler itself never touches the registry.
SuccessHandled ==
  /\ IsFetchResponse("stale")
     => /\ last'.result = 0 /\ polls_' = polls_
        /\ IF MayRearm THEN TimeoutSetWithin({0})
           ELSE update_poll_timeout_' = update_poll_timeout_
  /\ IsFetchResponse("current")
     => /\ last'.result = 1 /\ polls_' = polls_
        /\ update_poll_timeout_' = update_poll_timeout_

\* C25, amended: on a failure, unless the poll is closed or the account is a
\* bot, a timeout that is not armed is armed with a fresh polling interval and a
\* timeout that is armed already is kept as it is (closed or bot: nothing
\* changes); a stale success is not merged and sets the timeout to 0 unless the
\* poll is closed; only a current success is handed to reconciliation.
C25_FailureArmsIfUnarmedStaleRefetchesAtOnce ==
  [][/\ IsFetchResponse("failure")
        => /\ last'.result = 0 /\ polls_' = polls_
           /\ IF MayRearm /\ last'.args.poll_id \notin DOMAIN update_poll_timeout_
              THEN TimeoutSetWithin(PollingIntervals)
              ELSE update_poll_timeout_' = update_poll_timeout_
     /\ SuccessHandled]_vars

\* C25 witness: a stale success for an open poll has just armed the timeout
\* with interval 0.
C25_StaleResponseRearmedAtOnce ==
  /\ last.op = "on_get_poll_results" /\ ~check_failed
  /\ last.args.result = "ok" /\ last.args.generation # current_generation_
  /\ ~polls_[last.args.poll_id].is_closed
  /\ last.args.poll_id \in DOMAIN update_poll_timeout_
  /\ update_poll_timeout_[last.args.poll_id] = 0

\* C25 as stated: on a failure the timeout is armed with a fresh polling
\* interval unless the poll is closed or the account is a bot.
C25_FailureRearmsWithFreshInterval ==
  [][/\ IsFetchResponse("failure")
        => /\ last'.result = 0 /\ polls_' = polls_
           /\ IF MayRearm THEN TimeoutSetWithin(PollingIntervals)
              ELSE update_poll_timeout_' = update_poll_timeout_
     /\ SuccessHandled]_vars


\* The intervals Random::fast(3, 30) can return, in hundredths of a second.
OnlineIntervals == {100 * seconds : seconds \in 3..30}

\* The step is on_online for an account of this kind.
IsOnOnline(bot) == last'.op = "on_online" /\ ~check_failed' /\ is_bot = bot

\* C26, amended: on_online of a non-bot account gives every poll that has an
\* armed timeout and a display registration an interval in [3, 30]; an armed
\* poll without a display registration keeps its timeout; polls without an
\* armed timeout stay unarmed; for a bot account nothing changes.
C26_OnlineCollapsesArmedDisplayedPolls ==
  [][/\ IsOnOnline(FALSE)
        => /\ DOMAIN update_poll_timeout_' = DOMAIN update_poll_timeout_
           /\ \A poll_id \in DOMAIN update_poll_timeout_ :
                IF poll_id \in DOMAIN poll_messages_
                THEN update_poll_timeout_'[poll_id] \in OnlineIntervals
                ELSE update_poll_timeout_'[poll_id] = update_poll_timeout_[poll_id]
     /\ IsOnOnline(TRUE) => update_poll_timeout_' = update_poll_timeout_]_vars

\* C26 witness: on_online has run for a non-bot account with two armed polls, one
\* displayed, whose interval is now in [3, 30], and one not displayed, whose
\* interval is a polling interval.
C26_OnlineWithDisplayedAndUndisplayedPoll ==
  /\ last.op = "on_online" /\ ~check_failed /\ ~is_bot
  /\ DOMAIN update_poll_timeout_ = {1, 2}
  /\ 1 \in DOMAIN poll_messages_ /\ 2 \notin DOMAIN poll_messages_
  /\ update_poll_timeout_[1] \in OnlineIntervals
  /\ update_poll_timeout_[2] \notin OnlineIntervals

\* C26 as stated: on_online of a non-bot account gives every poll with an armed
\* timeout an interval in [3, 30], displayed or not.
C26_OnlineCollapsesEveryArmedPoll ==
  [][/\ IsOnOnline(FALSE)
        => /\ DOMAIN update_poll_timeout_' = DOMAIN update_poll_timeout_
           /\ \A poll_id \in DOMAIN update_poll_timeout_ :
                update_poll_timeout_'[poll_id] \in OnlineIntervals
     /\ IsOnOnline(TRUE) => update_poll_timeout_' = update_poll_timeout_]_vars


\* C27 as stated: whenever a submission supersedes a pending answer record that
\* still has waiters, the record's request handle is not empty, and the
\* assertion of do_set_poll_answer does not fail.
C27_SupersededRequestHasHandle ==
  [][\A poll_id \in ServerPollIds :
       IsSupersedingCall(poll_id)
       => /\ pending_answers_[poll_id].query_ref_ # 0
          /\ ~check_failed']_vars


\* The promise ids set_poll_answer hands out.
PromiseIds == 1..MaxPromises

\* C29 as stated: every promise handed to set_poll_answer is eventually
\* resolved, no pending answer record stays forever, and a step resolves only
\* promises that were unresolved before it or that it was handed itself.
C29_EveryPromiseEventuallyResolvedOnce ==
  /\ \A promise \in PromiseIds : (promise \in promises) ~> (promise \notin promises)
  /\ \A poll_id \in ServerPollIds :
       (poll_id \in DOMAIN pending_answers_) ~> (poll_id \notin DOMAIN pending_answers_)
  /\ [][\A r \in last'.resolved :
          r.promise \in promises
          \/ (last'.op = "set_poll_answer" /\ r.promise = last'.args.promise)]_vars

====
